---- MODULE Spec2Model ----
(***************************************************************************)
(* Model of the ESP32 NVS partition decoder, src/esp32-nvs2csv.py.         *)
(*                                                                         *)
(* Bytes are naturals 0..255 and byte strings are sequences of bytes.  A   *)
(* Python str is represented by the sequence of its UTF-8 bytes (the       *)
(* encoding is injective, so equality of strs is equality of sequences).   *)
(* The 4096-byte windows of the image are kept sparsely: the 32-byte       *)
(* header, the 32-byte bitmap, and the 32-byte contents of the slots that  *)
(* were programmed; every other byte of the window reads as 0xff, the      *)
(* value of erased flash.                                                  *)
(*                                                                         *)
(* 32-bit fields whose usual values exceed 2^31 - 1 (page state, page      *)
(* sequence number, CRCs) are kept as their four little-endian bytes and   *)
(* compared bytewise; all other integers are decoded numerically.          *)
(***************************************************************************)
EXTENDS Integers, Sequences, FiniteSets, TLC

\* ------------------------------------------------------------------------
\* Bounds of the model
\* ------------------------------------------------------------------------

\* most complete 4096-byte pages in one image over the page alphabet ScanPages
MaxPages == 2

\* number of pages of the images over the smaller alphabet OrderPages
MaxOrderPages == 3

\* most entries one page object may accumulate (a span byte of 0 makes the
\* code append the same entry without end)
MaxEntries == 4

\* the calls of extractNVSEntries made in one process
MaxCalls == 2

\* ------------------------------------------------------------------------
\* Program constants
\* ------------------------------------------------------------------------

PAGE_SIZE == 4096

ENTRY_SIZE == 32

NUM_ENTRIES == 126

\* NVSEntryState
Erased == 0

Written == 2

Empty == 3

\* NVSPageState, as the little-endian bytes of the 32-bit value
Corrupted == <<0, 0, 0, 0>>

Erasing == <<248, 255, 255, 255>>

Full == <<252, 255, 255, 255>>

Active == <<254, 255, 255, 255>>

EmptyPage == <<255, 255, 255, 255>>

\* NVSDataType
uint8_t == 1

uint16_t == 2

uint32_t == 4

uint64_t == 8

int8_t == 17

int16_t == 18

int32_t == 20

int64_t == 24

string == 33

blob_data == 66

blob_index == 72

NVSDataType ==
    { uint8_t, uint16_t, uint32_t, uint64_t, int8_t, int16_t, int32_t,
      int64_t, string, blob_data, blob_index }

\* NVSDataType(x).name
DataTypeName(t) ==
    CASE t = uint8_t -> "uint8_t"
      [] t = uint16_t -> "uint16_t"
      [] t = uint32_t -> "uint32_t"
      [] t = uint64_t -> "uint64_t"
      [] t = int8_t -> "int8_t"
      [] t = int16_t -> "int16_t"
      [] t = int32_t -> "int32_t"
      [] t = int64_t -> "int64_t"
      [] t = string -> "string"
      [] t = blob_data -> "blob_data"
      [] t = blob_index -> "blob_index"

\* NVSEntryState(x).name
EntryStateName(s) ==
    CASE s = Erased -> "Erased"
      [] s = Written -> "Written"
      [] s = Empty -> "Empty"

\* ------------------------------------------------------------------------
\* Bytes, slices, struct.unpack
\* ------------------------------------------------------------------------

Min(a, b) == IF a < b THEN a ELSE b

Max(a, b) == IF a > b THEN a ELSE b

\* Python s[a:b] on a byte string, 0-based, clamped to the length
Slice(s, a, b) ==
    LET hi == Min(b, Len(s))
    IN  IF hi <= a THEN <<>> ELSE [i \in 1..(hi - a) |-> s[a + i]]

\* struct.unpack of an unsigned little-endian integer
RECURSIVE UnpackUnsigned(_)
UnpackUnsigned(b) ==
    IF b = <<>> THEN 0 ELSE b[1] + 256 * UnpackUnsigned(Tail(b))

\* struct.unpack of a signed (two's complement) little-endian integer
UnpackSigned(b) ==
    IF b[Len(b)] >= 128
    THEN -(UnpackUnsigned([i \in 1..Len(b) |-> 255 - b[i]]) + 1)
    ELSE UnpackUnsigned(b)

\* bytes.rstrip(b'\x00')
RECURSIVE RStripNul(_)
RStripNul(b) ==
    IF b # <<>> /\ b[Len(b)] = 0 THEN RStripNul(SubSeq(b, 1, Len(b) - 1)) ELSE b

IsCont(b, i) == i <= Len(b) /\ b[i] >= 128 /\ b[i] <= 191

\* the length of the well-formed UTF-8 sequence that starts at index i of
\* b, or 0 when there is none
Utf8SeqLen(b, i) ==
    LET c == b[i]
    IN  IF c < 128 THEN 1
        ELSE IF c >= 194 /\ c <= 223 /\ IsCont(b, i + 1) THEN 2
        ELSE IF /\ c >= 224 /\ c <= 239
                /\ IsCont(b, i + 1) /\ IsCont(b, i + 2)
                /\ (c = 224 => b[i + 1] >= 160)
                /\ (c = 237 => b[i + 1] <= 159)
             THEN 3
        ELSE IF /\ c >= 240 /\ c <= 244
                /\ IsCont(b, i + 1) /\ IsCont(b, i + 2) /\ IsCont(b, i + 3)
                /\ (c = 240 => b[i + 1] >= 144)
                /\ (c = 244 => b[i + 1] <= 143)
             THEN 4
        ELSE 0

\* whether bytes.decode('utf-8') succeeds (well-formed UTF-8 from index i on)
RECURSIVE Utf8From(_, _)
Utf8From(b, i) ==
    IF i > Len(b) THEN TRUE
    ELSE LET n == Utf8SeqLen(b, i)
         IN  n > 0 /\ Utf8From(b, i + n)

Utf8Valid(b) == Utf8From(b, 1)

\* bytes.hex(): two lowercase hex digits (as ASCII codes) per byte
HexDigit(n) == IF n < 10 THEN 48 + n ELSE 87 + n

RECURSIVE Hex(_)
Hex(b) ==
    IF b = <<>> THEN <<>>
    ELSE <<HexDigit(b[1] \div 16), HexDigit(b[1] % 16)>> \o Hex(Tail(b))

\* ------------------------------------------------------------------------
\* Python values held by NVSEntry.value and used as keys of the namespaces
\* dict: an int, None, or a str
\* ------------------------------------------------------------------------

IntV(n) == [t |-> "int", n |-> n, s |-> <<>>]

NoneV == [t |-> "None", n |-> 0, s |-> <<>>]

StrV(s) == [t |-> "str", n |-> 0, s |-> s]

\* the str "Namespace"
NamespaceStr == <<78, 97, 109, 101, 115, 112, 97, 99, 101>>

\* NVSEntry.namespaces as the class body leaves it
InitialNamespaces == [k \in {IntV(0)} |-> NamespaceStr]

\* a variant that keeps the name a key is already bound to (dict.setdefault)
DictUpdate_KeepFirst(d, k, v) ==
    [x \in (DOMAIN d) \cup {k} |-> IF x \in DOMAIN d THEN d[x] ELSE v]

\* dict.update({k : v})
DictUpdate(d, k, v) ==
    [x \in (DOMAIN d) \cup {k} |-> IF x = k THEN v ELSE d[x]]

\* ------------------------------------------------------------------------
\* The image: a sequence of windows [len, header, bitmap, slots]
\* ------------------------------------------------------------------------

\* the byte at 0-based offset off of window w (off < w.len)
ByteAt(w, off) ==
    IF off < 32 THEN w.header[off + 1]
    ELSE IF off < 64 THEN w.bitmap[off - 31]
    ELSE LET s == (off \div ENTRY_SIZE) - 2
         IN  IF s \in DOMAIN w.slots
             THEN w.slots[s][(off % ENTRY_SIZE) + 1]
             ELSE 255

\* Python pageData[a:b] where pageData is the bytes of window w
PageSlice(w, a, b) ==
    LET hi == Min(b, w.len)
    IN  IF hi <= a THEN <<>> ELSE [i \in 1..(hi - a) |-> ByteAt(w, a + i - 1)]

\* ------------------------------------------------------------------------
\* class NVSEntry
\* ------------------------------------------------------------------------

\* the attribute defaults NVSEntry.__init__ sets before parsing
NewEntry(state) ==
    [ ns |-> 0, datatype |-> uint8_t, span |-> 0, chunkIndex |-> 0,
      crc |-> <<0, 0, 0, 0>>, dataCrc |-> <<0, 0, 0, 0>>, size |-> 0,
      key |-> <<>>, value |-> NoneV, state |-> state ]

\* the match statement of NVSEntry.__init__: [err, size, value, dataCrc]
\* for a known datatype and the (up to) 8 data bytes
ParseData(datatype, data) ==
    LET Short(n) == Len(Slice(data, 0, n)) < n
        Res(sz, v, dc) == [err |-> "", size |-> sz, value |-> v, dataCrc |-> dc]
        Fail == [err |-> "struct.error", size |-> 0, value |-> NoneV,
                 dataCrc |-> <<0, 0, 0, 0>>]
        NoCrc == <<0, 0, 0, 0>>
    IN  CASE datatype = uint8_t ->
               IF Short(1) THEN Fail
               ELSE Res(1, IntV(UnpackUnsigned(Slice(data, 0, 1))), NoCrc)
          [] datatype = uint16_t ->
               IF Short(2) THEN Fail
               ELSE Res(2, IntV(UnpackUnsigned(Slice(data, 0, 2))), NoCrc)
          [] datatype = uint32_t ->
               IF Short(4) THEN Fail
               ELSE Res(4, IntV(UnpackUnsigned(Slice(data, 0, 4))), NoCrc)
          [] datatype = uint64_t ->
               IF Short(8) THEN Fail
               ELSE Res(8, IntV(UnpackUnsigned(Slice(data, 0, 8))), NoCrc)
          [] datatype = int8_t ->
               IF Short(1) THEN Fail
               ELSE Res(1, IntV(UnpackSigned(Slice(data, 0, 1))), NoCrc)
          [] datatype = int16_t ->
               IF Short(2) THEN Fail
               ELSE Res(2, IntV(UnpackSigned(Slice(data, 0, 2))), NoCrc)
          [] datatype = int32_t ->
               IF Short(4) THEN Fail
               ELSE Res(4, IntV(UnpackSigned(Slice(data, 0, 4))), NoCrc)
          [] datatype = int64_t ->
               IF Short(8) THEN Fail
               ELSE Res(8, IntV(UnpackSigned(Slice(data, 0, 8))), NoCrc)
          [] datatype \in {string, blob_data} ->
               IF Short(8) THEN Fail
               ELSE Res(UnpackUnsigned(Slice(data, 0, 2)), NoneV, Slice(data, 4, 8))
          [] datatype = blob_index ->
               IF Short(6) THEN Fail
               ELSE Res(UnpackUnsigned(Slice(data, 0, 4)),
                        IntV(UnpackUnsigned(Slice(data, 4, 6))), NoCrc)

\* the result of NVSEntry.__init__ when it raises exception e
EntryRaises(e, state, namespaces) ==
    [err |-> e, entry |-> NewEntry(state), namespaces |-> namespaces]

\* the end of NVSEntry.__init__: the parsed data p is stored in the entry,
\* and an entry of namespace 0 adds {value : key} to the namespaces
StoreValue(hdr, p, namespaces) ==
    IF p.err # "" THEN EntryRaises(p.err, hdr.state, namespaces)
    ELSE [err |-> "",
          entry |-> [hdr EXCEPT !.size = p.size, !.value = p.value,
                               !.dataCrc = p.dataCrc],
          namespaces |-> IF hdr.ns = 0
                         THEN DictUpdate(namespaces, p.value, hdr.key)
                         ELSE namespaces]

\* NVSEntry.__init__ from the test "state != Empty" on
ParseValue(hdr, data, namespaces) ==
    IF hdr.state = Empty
    THEN [err |-> "", entry |-> hdr, namespaces |-> namespaces]
    ELSE StoreValue(hdr, ParseData(hdr.datatype, data), namespaces)

\* NVSEntry.__init__ once the 24 metadata bytes are unpacked: the datatype
\* is converted to the enum and the key is stripped and decoded
ParseMeta(meta, data, state, namespaces) ==
    IF meta[2] \notin NVSDataType
    THEN EntryRaises("ValueError", state, namespaces)
    ELSE IF ~Utf8Valid(RStripNul(Slice(meta, 8, 24)))
    THEN EntryRaises("UnicodeDecodeError", state, namespaces)
    ELSE ParseValue([NewEntry(state) EXCEPT
                       !.ns = meta[1], !.datatype = meta[2], !.span = meta[3],
                       !.chunkIndex = meta[4], !.crc = Slice(meta, 4, 8),
                       !.key = RStripNul(Slice(meta, 8, 24))],
                    data, namespaces)

\* NVSEntry.__init__(entryData, state) run with the class dict namespaces:
\* [err, entry, namespaces]; err is "" or the name of the exception raised
NVSEntry_init(entryData, state, namespaces) ==
    IF Len(Slice(entryData, 0, 24)) < 24
    THEN EntryRaises("struct.error", state, namespaces)
    ELSE ParseMeta(Slice(entryData, 0, 24), Slice(entryData, 24, 32), state,
                   namespaces)

\* the end of readStrValue: strip the NULs of the raw bytes and decode them
DecodeStr(entry, raw) ==
    IF Len(raw) < entry.size
    THEN [err |-> "struct.error", entry |-> entry]
    ELSE IF ~Utf8Valid(RStripNul(raw))
    THEN [err |-> "UnicodeDecodeError", entry |-> entry]
    ELSE [err |-> "", entry |-> [entry EXCEPT !.value = StrV(RStripNul(raw))]]

\* NVSEntry.readStrValue(data): [err, entry]
readStrValue(entry, data) ==
    IF entry.datatype = string
    THEN DecodeStr(entry, Slice(data, 0, entry.size))
    ELSE [err |-> "AttributeError", entry |-> entry]

\* NVSEntry.readBlobValue(data): [err, entry]
readBlobValue(entry, data) ==
    IF entry.datatype = blob_data
    THEN [err |-> "",
          entry |-> [entry EXCEPT
                       !.value = StrV(<<98, 39>> \o Hex(Slice(data, 0, entry.size))
                                      \o <<39>>)]]
    ELSE [err |-> "AttributeError", entry |-> entry]

\* NVSEntry.__str__ run with the class dict namespaces: [err, row]
NVSEntry_str(entry, namespaces) ==
    IF IntV(entry.ns) \notin DOMAIN namespaces
    THEN [err |-> "KeyError", row |-> <<>>]
    ELSE [err |-> "",
          row |-> [ state |-> EntryStateName(entry.state),
                    datatype |-> DataTypeName(entry.datatype),
                    size |-> entry.size,
                    namespace |-> namespaces[IntV(entry.ns)],
                    key |-> entry.key,
                    value |-> entry.value ]]

\* ------------------------------------------------------------------------
\* class NVSPage
\* ------------------------------------------------------------------------

\* a variant that also parses the slots of a page in the Empty state
IsActiveOrFull_EmptyToo(state) == state = Active \/ state = Full \/ state = EmptyPage

\* the test "state == Active or state == Full" of NVSPage.__init__
IsActiveOrFull(state) == state = Active \/ state = Full

\* a variant that takes the most significant bit pair of a byte first
RECURSIVE UnpackEntryState_MsbFirst(_, _)
UnpackEntryState_MsbFirst(bitmap, i) ==
    IF i > Len(bitmap) THEN <<>>
    ELSE LET b == bitmap[i]
         IN  <<(b \div 64) % 4, (b \div 16) % 4, (b \div 4) % 4, b % 4>>
             \o UnpackEntryState_MsbFirst(bitmap, i + 1)

\* the loop that unpacks the 32 bitmap bytes into 128 two-bit states
RECURSIVE UnpackEntryState(_, _)
UnpackEntryState(bitmap, i) ==
    IF i > Len(bitmap) THEN <<>>
    ELSE LET b == bitmap[i]
         IN  <<b % 4, (b \div 4) % 4, (b \div 16) % 4, (b \div 64) % 4>>
             \o UnpackEntryState(bitmap, i + 1)

\* the page object after the header is parsed; phys and slots are history
\* fields (the offset of the window in the image, and the slot index each
\* element of entries was decoded at)
NewPage(hdr, pageAddr) ==
    [ state |-> Slice(hdr, 0, 4), seqNum |-> Slice(hdr, 4, 8),
      version |-> hdr[9], crc |-> Slice(hdr, 28, 32), entries |-> <<>>,
      phys |-> pageAddr, slots |-> <<>> ]

\* the result r of NVSEntry.__init__ with the outcome v of reading the value
WithValue(r, v) == [err |-> v.err, entry |-> v.entry, namespaces |-> r.namespaces]

\* the two tests after NVSEntry(...) in the walk: a string or a blob reads
\* its value from rest, the bytes of the page after the slot
ReadValue(r, rest) ==
    IF r.err # "" THEN r
    ELSE IF r.entry.datatype = string
         THEN WithValue(r, readStrValue(r.entry, rest))
    ELSE IF r.entry.datatype = blob_data
         THEN WithValue(r, readBlobValue(r.entry, rest))
    ELSE r

\* one pass of the while loop body for a non-Empty slot: [err, entry, namespaces]
DecodeSlot(w, entryNum, state, namespaces) ==
    ReadValue(NVSEntry_init(PageSlice(w, (entryNum + 2) * ENTRY_SIZE,
                                      (entryNum + 2) * ENTRY_SIZE + ENTRY_SIZE),
                            state, namespaces),
              PageSlice(w, (entryNum + 2) * ENTRY_SIZE + ENTRY_SIZE, w.len))

\* ------------------------------------------------------------------------
\* pages.sort(key=attrgetter('seqNum')): a stable sort
\* ------------------------------------------------------------------------

\* a < b for two 32-bit values given as little-endian bytes
U32Less(a, b) ==
    \E i \in 1..4 : a[i] < b[i] /\ \A j \in (i + 1)..4 : a[j] = b[j]

\* insert page p after every element whose key is not greater
RECURSIVE InsertBySeqNum(_, _)
InsertBySeqNum(sorted, p) ==
    IF sorted = <<>> THEN <<p>>
    ELSE IF U32Less(p.seqNum, sorted[Len(sorted)].seqNum)
         THEN InsertBySeqNum(SubSeq(sorted, 1, Len(sorted) - 1), p)
              \o <<sorted[Len(sorted)]>>
         ELSE Append(sorted, p)

\* a variant that leaves the pages in physical order
SortBySeqNum_Unsorted(ps) == ps

RECURSIVE SortBySeqNum(_)
SortBySeqNum(ps) ==
    IF ps = <<>> THEN <<>>
    ELSE InsertBySeqNum(SortBySeqNum(SubSeq(ps, 1, Len(ps) - 1)), ps[Len(ps)])

\* ------------------------------------------------------------------------
\* Input images
\* ------------------------------------------------------------------------

Repeat(b, n) == [i \in 1..n |-> b]

PadTo(s, n, b) == s \o Repeat(b, n - Len(s))

\* the 32 bytes of an entry slot: ns, type, span, chunkIndex, crc (4),
\* key (16, NUL padded), data (8, 0xff padded)
MkEntry(ns, typ, span, key, data) ==
    <<ns, typ, span, 255>> \o <<0, 0, 0, 0>> \o PadTo(key, 16, 0) \o PadTo(data, 8, 255)

\* the 32 bytes of a page header: state (4), sequence number (4), version,
\* unused (19), crc (4)
MkHeader(state, seq) ==
    state \o <<seq, 0, 0, 0>> \o <<254>> \o Repeat(255, 19) \o <<0, 0, 0, 0>>

\* a bitmap that is 0xff except for its first byte (slots 0..3) and its
\* last byte (slots 124..127)
MkBitmap(b0, b31) ==
    [i \in 1..32 |-> IF i = 1 THEN b0 ELSE IF i = 32 THEN b31 ELSE 255]

MkWindow(len, state, seq, b0, b31, slots) ==
    [ len |-> len, header |-> MkHeader(state, seq),
      bitmap |-> MkBitmap(b0, b31), slots |-> slots ]

\* (namespace 0, uint8_t, key "a", value 1): binds namespace 1 to "a"
DefA == MkEntry(0, uint8_t, 1, <<97>>, <<1>>)

\* binds namespace 1 to "b", and to "c"
DefB == MkEntry(0, uint8_t, 1, <<98>>, <<1>>)

DefC == MkEntry(0, int16_t, 1, <<99>>, <<1, 0>>)

\* the same as DefA with a span byte of 0
DefSpan0 == MkEntry(0, uint8_t, 0, <<97>>, <<1>>)

\* (namespace 1, uint8_t, key "k", value 7)
EntK == MkEntry(1, uint8_t, 1, <<107>>, <<7>>)

\* the same with a span byte of 3
EntKSpan3 == MkEntry(1, uint8_t, 3, <<107>>, <<7>>)

\* an entry whose type byte 0x99 is no known tag
EntUnknown == MkEntry(1, 153, 1, <<107>>, <<7>>)

\* (namespace 1, string, key "s") of 4 payload bytes, span 2 and span 1
StrSpan2 == MkEntry(1, string, 2, <<115>>, <<4, 0, 255, 255, 0, 0, 0, 0>>)

StrSpan1 == MkEntry(1, string, 1, <<115>>, <<4, 0, 255, 255, 0, 0, 0, 0>>)

\* (namespace 1, blob_data, key "s") of 4 payload bytes, span 2
BlobSpan2 == MkEntry(1, blob_data, 2, <<115>>, <<4, 0, 255, 255, 0, 0, 0, 0>>)

\* a payload slot: "home" followed by erased flash
Payload == PadTo(<<104, 111, 109, 101>>, 32, 255)

Slots3(s0, s1, s2) == [i \in {0, 1, 2} |-> IF i = 0 THEN s0 ELSE IF i = 1 THEN s1 ELSE s2]

\* first bitmap bytes: slots 0..2 Written; slot 0 Erased and 1, 2 Written;
\* slot 0 in the invalid state 1 and 1, 2 Written; slot 0 in state 1, slot 1
\* Written and slot 2 Empty; slots 0, 1 Written and slot 2 Empty
FirstBytes == {234, 232, 233, 249, 250}

\* pages of one Active image with a variety of entries in slots 0..2 and
\* either nothing or a span-3 entry in the last slot, 125
RichPages ==
    { MkWindow(PAGE_SIZE, Active, 1, b0, last[1],
               IF last[1] = 255 THEN Slots3(s0, s1, Payload)
               ELSE [i \in {0, 1, 2, 125} |->
                       IF i = 125 THEN last[2] ELSE Slots3(s0, s1, Payload)[i]]) :
        b0 \in FirstBytes,
        s0 \in {DefA, DefSpan0, EntK, EntUnknown},
        s1 \in {EntK, StrSpan2, StrSpan1, BlobSpan2},
        last \in {<<255, Payload>>, <<251, EntKSpan3>>} }

\* pages that are neither Active nor Full but hold live-looking slots, and
\* a fully erased page
InactiveStates == {EmptyPage, Erasing, Corrupted, <<52, 18, 0, 0>>}

InactivePage(st) == MkWindow(PAGE_SIZE, st, 1, 250, 255, Slots3(DefC, EntK, Payload))

ErasedPage ==
    [ len |-> PAGE_SIZE, header |-> Repeat(255, 32), bitmap |-> Repeat(255, 32),
      slots |-> [i \in {} |-> <<>>] ]

\* an Active page of erased slots whose bitmap is 0xff except for byte k
\* (counted from 1), which is v
BitmapPage(k, v) ==
    [ ErasedPage EXCEPT !.header = MkHeader(Active, 1),
                        !.bitmap = [i \in 1..32 |-> IF i = k THEN v ELSE 255] ]

\* bitmap bytes that hold four different states: 0x1b, 0xe4 and 0x8d
BitmapPages == { BitmapPage(k, v) : k \in {2, 17, 31}, v \in {27, 228, 141} }

\* the page alphabet of the images of several pages
ScanPages ==
    { MkWindow(PAGE_SIZE, Active, 5, 250, 255, Slots3(DefB, EntK, Payload)),
      MkWindow(PAGE_SIZE, Active, 2, 250, 255, Slots3(DefA, EntK, Payload)),
      MkWindow(PAGE_SIZE, Full, 2, 242, 255, Slots3(DefB, EntK, Payload)),
      MkWindow(PAGE_SIZE, Active, 3, 254, 255, Slots3(EntK, EntK, Payload)),
      InactivePage(EmptyPage), InactivePage(Corrupted) }

\* the pages of the longer images: sequence numbers 5, 2 and 2
OrderPages ==
    { MkWindow(PAGE_SIZE, Active, 5, 250, 255, Slots3(DefB, EntK, Payload)),
      MkWindow(PAGE_SIZE, Active, 2, 250, 255, Slots3(DefA, EntK, Payload)),
      MkWindow(PAGE_SIZE, Full, 2, 242, 255, Slots3(DefB, EntK, Payload)) }

\* final windows shorter than a page
PartialWindows ==
    { [ErasedPage EXCEPT !.len = 4],
      MkWindow(40, Active, 9, 254, 255, Slots3(DefC, EntK, Payload)),
      MkWindow(64, EmptyPage, 9, 254, 255, Slots3(DefC, EntK, Payload)),
      MkWindow(96, Active, 9, 254, 255, Slots3(DefC, EntK, Payload)),
      MkWindow(96, Active, 9, 250, 255, Slots3(DefC, EntK, Payload)) }

RECURSIVE SeqsOf(_, _)
SeqsOf(S, n) ==
    IF n = 0 THEN {<<>>}
    ELSE {Append(q, x) : q \in SeqsOf(S, n - 1), x \in S}

Images ==
    {<<p>> : p \in RichPages \cup {InactivePage(st) : st \in InactiveStates}
                   \cup {ErasedPage} \cup BitmapPages}
    \cup UNION {SeqsOf(ScanPages, n) : n \in 2..MaxPages}
    \cup SeqsOf(OrderPages, MaxOrderPages)
    \cup {<<p, q>> : p \in {MkWindow(PAGE_SIZE, Active, 2, 250, 255,
                                     Slots3(DefA, EntK, Payload))},
                     q \in PartialWindows}

\* the images of the later calls of one process: a page whose two entries
\* are of namespace 1 and bind nothing, and a page that binds 1 to "a"
LaterImages ==
    { <<MkWindow(PAGE_SIZE, Active, 1, 250, 255, Slots3(EntK, EntK, Payload))>>,
      <<MkWindow(PAGE_SIZE, Active, 2, 250, 255, Slots3(DefA, EntK, Payload))>> }

\* len(imageData)
RECURSIVE ImageLen(_)
ImageLen(img) == IF img = <<>> THEN 0 ELSE img[1].len + ImageLen(Tail(img))

\* the window imageData[pageAddr : pageAddr + PAGE_SIZE]
WindowAt(img, pageAddr) == img[(pageAddr \div PAGE_SIZE) + 1]

\* ------------------------------------------------------------------------
\* State
\* ------------------------------------------------------------------------

VARIABLES
    imageData,      \* the bytes read from the file
    printWritten,   \* flag: write the Written entries
    printErased,    \* flag: write the Erased entries
    pc,             \* "scan", "walk", "write", "done" or "raised"
    pageAddr,       \* loop variable of the page loop of extractNVSEntries
    page,           \* the NVSPage object under construction
    entryState,     \* the unpacked bitmap of that page
    entryNum,       \* the slot cursor of NVSPage.__init__
    skipped,        \* history: Empty slots skipped on that page
    pages,          \* the list of retained pages
    namespaces,     \* the class attribute NVSEntry.namespaces
    pi,             \* output loop: index into pages
    ei,             \* output loop: index into pages[pi].entries
    out,            \* the rows of the CSV file after its header
    err,            \* the exception that ended the program, or ""
    warned,         \* the warnings issued through warnings.warn
    calls,          \* the number of the current call of extractNVSEntries
    prev,           \* history: the image and the rows of the previous call
    addr,           \* esp32-bin2elf: the address of the partition table;
                    \* esp32-mi2csv: the scan address of extractMiNVSEntries
    offset,         \* esp32-bin2elf: the table cursor of parsePartitionTable
    entries,        \* esp32-mi2csv: the list of collected MiNVSEntry objects
    files,          \* esp32-bin2elf: the files written, as <<name, bytes>>
    bootloader      \* esp32-bin2elf: the address of the bootloader

vars ==
    << imageData, printWritten, printErased, pc, pageAddr, page, entryState,
       entryNum, skipped, pages, namespaces, pi, ei, out, err, warned, calls,
       prev, addr, offset, entries, files, bootloader >>

NoPage == NewPage(Repeat(0, 32), 0)

Init ==
    /\ imageData \in Images
    /\ printWritten \in BOOLEAN
    /\ printErased \in BOOLEAN
    /\ pc = "scan"
    /\ pageAddr = 0
    /\ page = NoPage
    /\ entryState = <<>>
    /\ entryNum = 0
    /\ skipped = 0
    /\ pages = <<>>
    /\ namespaces = InitialNamespaces
    /\ pi = 1
    /\ ei = 1
    /\ out = <<>>
    /\ err = ""
    /\ warned = <<>>
    /\ calls = 1
    /\ prev = [image |-> <<>>, out |-> <<>>]
    /\ addr = 0
    /\ offset = 0
    /\ entries = <<>>
    /\ files = <<>>
    /\ bootloader = 0

\* ------------------------------------------------------------------------
\* extractNVSEntries: the page loop, with NVSPage.__init__ inlined
\* ------------------------------------------------------------------------

\* the test of extractNVSEntries that decides whether a page is retained
PageHasData(state) == state = Active \/ state = Full

Raise(e) ==
    /\ pc' = "raised"
    /\ err' = e

\* the header of the window under the page loop is parsed into a page that
\* is not parsed further; extractNVSEntries then tests whether to retain it
SkipHeader(hdr) ==
    /\ Len(hdr) = 32
    /\ ~IsActiveOrFull(Slice(hdr, 0, 4))
    /\ page' = NewPage(hdr, pageAddr)
    /\ pages' = IF PageHasData(Slice(hdr, 0, 4))
                THEN Append(pages, NewPage(hdr, pageAddr))
                ELSE pages

\* NVSPage(imageData[pageAddr : pageAddr + PAGE_SIZE]) for a page that is
\* not parsed further, and the test that follows it in extractNVSEntries
SkipPage ==
    /\ pc = "scan"
    /\ pageAddr < ImageLen(imageData)
    /\ SkipHeader(PageSlice(WindowAt(imageData, pageAddr), 0, 32))
    /\ pageAddr' = pageAddr + PAGE_SIZE
    /\ UNCHANGED << addr, offset, entries, files, bootloader >>
    /\ UNCHANGED << warned, calls, prev, imageData, printWritten, printErased, pc, entryState,
                    entryNum, skipped, namespaces, pi, ei, out, err >>

\* the header of an Active or Full page is parsed and its bitmap unpacked
StartWalk(hdr, bitmap) ==
    /\ Len(hdr) = 32
    /\ IsActiveOrFull(Slice(hdr, 0, 4))
    /\ Len(bitmap) = 32
    /\ page' = NewPage(hdr, pageAddr)
    /\ entryState' = UnpackEntryState(bitmap, 1)

\* NVSPage.__init__ up to the start of the slot walk
BeginPage ==
    /\ pc = "scan"
    /\ pageAddr < ImageLen(imageData)
    /\ StartWalk(PageSlice(WindowAt(imageData, pageAddr), 0, 32),
                 PageSlice(WindowAt(imageData, pageAddr), 32, 64))
    /\ entryNum' = 0
    /\ skipped' = 0
    /\ pc' = "walk"
    /\ UNCHANGED << addr, offset, entries, files, bootloader >>
    /\ UNCHANGED << warned, calls, prev, imageData, printWritten, printErased, pageAddr, pages,
                    namespaces, pi, ei, out, err >>

\* the header or the bitmap is too short for struct.unpack
ShortPage(hdr, bitmap) ==
    \/ Len(hdr) < 32
    \/ IsActiveOrFull(Slice(hdr, 0, 4)) /\ Len(bitmap) < 32

\* struct.unpack of the header or of the bitmap raises on a short window
BeginPageRaise ==
    /\ pc = "scan"
    /\ pageAddr < ImageLen(imageData)
    /\ ShortPage(PageSlice(WindowAt(imageData, pageAddr), 0, 32),
                 PageSlice(WindowAt(imageData, pageAddr), 32, 64))
    /\ Raise("struct.error")
    /\ UNCHANGED << addr, offset, entries, files, bootloader >>
    /\ UNCHANGED << warned, calls, prev, imageData, printWritten, printErased, pageAddr, page,
                    entryState, entryNum, skipped, pages, namespaces, pi, ei,
                    out >>

\* the else branch of the walk: an Empty slot
SkipEmptySlot ==
    /\ pc = "walk"
    /\ entryNum < NUM_ENTRIES
    /\ entryState[entryNum + 1] = Empty
    /\ entryNum' = entryNum + 1
    /\ skipped' = skipped + 1
    /\ UNCHANGED << addr, offset, entries, files, bootloader >>
    /\ UNCHANGED << warned, calls, prev, imageData, printWritten, printErased, pc, pageAddr, page,
                    entryState, pages, namespaces, pi, ei, out, err >>

\* the slot cursor after an entry was decoded
Advance(n, entry) == n + entry.span

\* the decoded entry is appended to the page and the cursor advances
AppendEntry(r) ==
    /\ r.err = ""
    /\ page' = [page EXCEPT !.entries = Append(@, r.entry),
                            !.slots = Append(@, entryNum)]
    /\ entryNum' = Advance(entryNum, r.entry)
    /\ namespaces' = r.namespaces

\* the if branch of the walk: decode the entry at the cursor
DecodeEntry ==
    /\ pc = "walk"
    /\ entryNum < NUM_ENTRIES
    /\ entryState[entryNum + 1] # Empty
    /\ Len(page.entries) < MaxEntries
    /\ AppendEntry(DecodeSlot(WindowAt(imageData, pageAddr), entryNum,
                              entryState[entryNum + 1], namespaces))
    /\ UNCHANGED << addr, offset, entries, files, bootloader >>
    /\ UNCHANGED << warned, calls, prev, imageData, printWritten, printErased, pc, pageAddr,
                    entryState, skipped, pages, pi, ei, out, err >>

\* the exception of a failed decoding ends the program
RaiseFrom(r) ==
    /\ r.err # ""
    /\ Raise(r.err)
    /\ namespaces' = r.namespaces

\* decoding the entry at the cursor raises
DecodeEntryRaise ==
    /\ pc = "walk"
    /\ entryNum < NUM_ENTRIES
    /\ entryState[entryNum + 1] # Empty
    /\ RaiseFrom(DecodeSlot(WindowAt(imageData, pageAddr), entryNum,
                            entryState[entryNum + 1], namespaces))
    /\ UNCHANGED << addr, offset, entries, files, bootloader >>
    /\ UNCHANGED << warned, calls, prev, imageData, printWritten, printErased, pageAddr, page,
                    entryState, entryNum, skipped, pages, pi, ei, out >>

\* the walk is over: NVSPage.__init__ returns and the page is retained
FinishPage ==
    /\ pc = "walk"
    /\ entryNum >= NUM_ENTRIES
    /\ pages' = IF PageHasData(page.state) THEN Append(pages, page) ELSE pages
    /\ pageAddr' = pageAddr + PAGE_SIZE
    /\ pc' = "scan"
    /\ UNCHANGED << addr, offset, entries, files, bootloader >>
    /\ UNCHANGED << warned, calls, prev, imageData, printWritten, printErased, page, entryState,
                    entryNum, skipped, namespaces, pi, ei, out, err >>

\* a variant that opens the file in mode "a"
OpenForWrite_Append(content) == content

\* open(outfilename, mode="w"): the content of the file once it is open
OpenForWrite(content) == <<>>

\* the page loop is over: sort the pages, open the CSV file, write its header
SortPages ==
    /\ pc = "scan"
    /\ pageAddr >= ImageLen(imageData)
    /\ pages' = SortBySeqNum(pages)
    /\ pi' = 1
    /\ ei' = 1
    /\ pc' = "write"
    /\ out' = OpenForWrite(out)
    /\ UNCHANGED << addr, offset, entries, files, bootloader >>
    /\ UNCHANGED << warned, calls, prev, imageData, printWritten, printErased, pageAddr, page,
                    entryState, entryNum, skipped, namespaces, err >>

\* ------------------------------------------------------------------------
\* extractNVSEntries: the output loop
\* ------------------------------------------------------------------------

\* the condition under which an entry is written
Selected(entry) ==
    \/ printWritten /\ entry.state = Written
    \/ printErased /\ entry.state = Erased

AtEntry ==
    /\ pc = "write"
    /\ pi <= Len(pages)
    /\ ei <= Len(pages[pi].entries)

\* the rendered row r is appended to the file; phys, slot and ns are
\* history fields
WriteRow(r) ==
    /\ r.err = ""
    /\ out' = Append(out, [ row |-> r.row, phys |-> pages[pi].phys,
                            slot |-> pages[pi].slots[ei],
                            ns |-> pages[pi].entries[ei].ns ])

\* f.write(str(entry) + '\n')
WriteEntry ==
    /\ AtEntry
    /\ Selected(pages[pi].entries[ei])
    /\ WriteRow(NVSEntry_str(pages[pi].entries[ei], namespaces))
    /\ ei' = ei + 1
    /\ UNCHANGED << addr, offset, entries, files, bootloader >>
    /\ UNCHANGED << warned, calls, prev, imageData, printWritten, printErased, pc, pageAddr, page,
                    entryState, entryNum, skipped, pages, namespaces, pi, err >>

\* str(entry) raises
WriteEntryRaise ==
    /\ AtEntry
    /\ Selected(pages[pi].entries[ei])
    /\ NVSEntry_str(pages[pi].entries[ei], namespaces).err # ""
    /\ Raise(NVSEntry_str(pages[pi].entries[ei], namespaces).err)
    /\ UNCHANGED << addr, offset, entries, files, bootloader >>
    /\ UNCHANGED << warned, calls, prev, imageData, printWritten, printErased, pageAddr, page,
                    entryState, entryNum, skipped, pages, namespaces, pi, ei,
                    out >>

\* the entry is not selected by the flags
FilterEntry ==
    /\ AtEntry
    /\ ~Selected(pages[pi].entries[ei])
    /\ ei' = ei + 1
    /\ UNCHANGED << addr, offset, entries, files, bootloader >>
    /\ UNCHANGED << warned, calls, prev, imageData, printWritten, printErased, pc, pageAddr, page,
                    entryState, entryNum, skipped, pages, namespaces, pi, out,
                    err >>

\* the inner loop is over: next page
NextPage ==
    /\ pc = "write"
    /\ pi <= Len(pages)
    /\ ei > Len(pages[pi].entries)
    /\ pi' = pi + 1
    /\ ei' = 1
    /\ UNCHANGED << addr, offset, entries, files, bootloader >>
    /\ UNCHANGED << warned, calls, prev, imageData, printWritten, printErased, pc, pageAddr, page,
                    entryState, entryNum, skipped, pages, namespaces, out, err >>

\* the outer loop is over: the file is closed and the program returns
Finish ==
    /\ pc = "write"
    /\ pi > Len(pages)
    /\ pc' = "done"
    /\ UNCHANGED << addr, offset, entries, files, bootloader >>
    /\ UNCHANGED << warned, calls, prev, imageData, printWritten, printErased, pageAddr, page,
                    entryState, entryNum, skipped, pages, namespaces, pi, ei,
                    out, err >>

\* the process calls extractNVSEntries once more, on the same file or on
\* another one: the locals are new, the class attribute NVSEntry.namespaces
\* is the one the previous call left, and the CSV file named after another
\* image file is another file
CallAgain ==
    /\ pc = "done"
    /\ calls < MaxCalls
    /\ \E img \in {imageData} \cup LaterImages :
          /\ imageData' = img
          /\ out' = IF img = imageData THEN out ELSE <<>>
    /\ calls' = calls + 1
    /\ prev' = [image |-> imageData, out |-> out]
    /\ pc' = "scan"
    /\ pageAddr' = 0
    /\ page' = NoPage
    /\ entryState' = <<>>
    /\ entryNum' = 0
    /\ skipped' = 0
    /\ pages' = <<>>
    /\ pi' = 1
    /\ ei' = 1
    /\ UNCHANGED << printWritten, printErased, namespaces, err, warned, addr, offset,
                    entries, files, bootloader >>

Next ==
    \/ SkipPage
    \/ BeginPage
    \/ BeginPageRaise
    \/ SkipEmptySlot
    \/ DecodeEntry
    \/ DecodeEntryRaise
    \/ FinishPage
    \/ SortPages
    \/ WriteEntry
    \/ WriteEntryRaise
    \/ FilterEntry
    \/ NextPage
    \/ Finish
    \/ CallAgain

Spec == Init /\ [][Next]_vars

\* ------------------------------------------------------------------------
\* Helpers of the properties
\* ------------------------------------------------------------------------

\* the window under the page loop, when there is one
AtWindow == pageAddr < ImageLen(imageData)

CurWindow == WindowAt(imageData, pageAddr)

\* the header state and sequence number of the window at offset phys, read
\* from the image
StateAt(phys) == SubSeq(WindowAt(imageData, phys).header, 1, 4)

SeqNumAt(phys) == SubSeq(WindowAt(imageData, phys).header, 5, 8)

ActiveOrFullAt(phys) == StateAt(phys) \in {Active, Full}

RECURSIVE SumSpan(_)
SumSpan(es) == IF es = <<>> THEN 0 ELSE es[1].span + SumSpan(Tail(es))

\* the walk is at a slot whose bitmap state is not Empty
AtLiveSlot ==
    /\ pc = "walk"
    /\ entryNum < NUM_ENTRIES
    /\ entryState[entryNum + 1] # Empty

\* the walk step appended an entry to the page
Decoded == pc = "walk" /\ Len(page'.entries) = Len(page.entries) + 1

\* ------------------------------------------------------------------------
\* C1: the slot walk of an Active or Full page terminates for every span
\* byte: after each decoded entry the cursor advances by max(span, 1), so it
\* never stays on the same slot.
\* ------------------------------------------------------------------------
C1_WalkAdvances ==
    [][Decoded =>
         entryNum' = entryNum + Max(page'.entries[Len(page'.entries)].span, 1)]_vars

\* ------------------------------------------------------------------------
\* C2: when the slot walk of a page finishes, the spans of the entries
\* decoded on it plus the Empty slots skipped add up to exactly 126, and the
\* cursor is at 126, not beyond.
\* ------------------------------------------------------------------------
C2_SlotsAccounted ==
    (pc = "walk" /\ entryNum >= NUM_ENTRIES) =>
        /\ SumSpan(page.entries) + skipped = NUM_ENTRIES
        /\ entryNum = NUM_ENTRIES

\* ------------------------------------------------------------------------
\* C3: every decoded string or blob_data entry has
\* span = 1 + ceil(payloadSize / 32).
\* ------------------------------------------------------------------------
C3_SpanMatchesPayload ==
    \A i \in 1..Len(page.entries) :
        LET e == page.entries[i]
        IN  e.datatype \in {string, blob_data} =>
                e.span = 1 + ((e.size + ENTRY_SIZE - 1) \div ENTRY_SIZE)

\* ------------------------------------------------------------------------
\* C4: a page whose header state is neither Active nor Full has none of its
\* slots decoded, is not retained, contributes no row to the output, and
\* parsing it raises no error.
\* ------------------------------------------------------------------------
C4_InactivePageSkipped ==
    /\ pc = "walk" => ActiveOrFullAt(pageAddr)
    /\ \A i \in 1..Len(pages) : ActiveOrFullAt(pages[i].phys)
    /\ \A i \in 1..Len(out) : ActiveOrFullAt(out[i].phys)
    /\ (pc = "raised" /\ AtWindow /\ CurWindow.len >= 32) => ActiveOrFullAt(pageAddr)

\* the scan is over, wrote rows, and passed a page that is neither Active
\* nor Full although its bitmap marks slots as Written
C4_Witness ==
    /\ pc = "done"
    /\ out # <<>>
    /\ \E i \in 1..Len(imageData) :
          /\ imageData[i].len = PAGE_SIZE
          /\ SubSeq(imageData[i].header, 1, 4) \notin {Active, Full}
          /\ imageData[i].bitmap[1] = 250

\* ------------------------------------------------------------------------
\* C5: the rows are written in ascending page sequence number, pages of
\* equal sequence number in their physical order, and the entries of one
\* page in ascending slot order.
\* ------------------------------------------------------------------------
RowBefore(r1, r2) ==
    \/ U32Less(SeqNumAt(r1.phys), SeqNumAt(r2.phys))
    \/ /\ SeqNumAt(r1.phys) = SeqNumAt(r2.phys)
       /\ \/ r1.phys < r2.phys
          \/ r1.phys = r2.phys /\ r1.slot < r2.slot

C5_OutputOrder ==
    \A i \in 1..Len(out) : \A j \in (i + 1)..Len(out) : RowBefore(out[i], out[j])

\* rows of a physically later page precede rows of an earlier one, and rows
\* of two pages with the same sequence number were written
C5_Witness ==
    /\ pc = "done"
    /\ \E i \in 1..Len(out) : \E j \in (i + 1)..Len(out) :
          out[i].phys > out[j].phys
    /\ \E i \in 1..Len(out) : \E j \in (i + 1)..Len(out) :
          /\ out[i].phys # out[j].phys
          /\ SeqNumAt(out[i].phys) = SeqNumAt(out[j].phys)

\* ------------------------------------------------------------------------
\* C6: a selected entry whose namespace id is bound by no defining entry is
\* still written, and writing it does not fail.
\* ------------------------------------------------------------------------
C6_UnboundNamespaceWritten ==
    [][(/\ AtEntry
        /\ Selected(pages[pi].entries[ei])
        /\ IntV(pages[pi].entries[ei].ns) \notin DOMAIN namespaces)
       => (pc' = "write" /\ Len(out') = Len(out) + 1)]_vars

\* ------------------------------------------------------------------------
\* C7: once the pages are scanned, the name bound to a namespace id is the
\* key of the defining entry that is last in (sequence number, slot) order
\* among the retained pages, whatever the physical order of the pages.
\* ------------------------------------------------------------------------
Defs(k) ==
    { d \in (1..Len(pages)) \X (1..MaxEntries) :
        /\ d[2] <= Len(pages[d[1]].entries)
        /\ pages[d[1]].entries[d[2]].ns = 0
        /\ pages[d[1]].entries[d[2]].value = k }

DefBefore(d1, d2) ==
    LET p1 == pages[d1[1]]
        p2 == pages[d2[1]]
    IN  \/ U32Less(p1.seqNum, p2.seqNum)
        \/ /\ p1.seqNum = p2.seqNum
           /\ \/ p1.phys < p2.phys
              \/ p1.phys = p2.phys /\ p1.slots[d1[2]] < p2.slots[d2[2]]

C7_BindingsInSequenceOrder ==
    pc \in {"write", "done"} =>
        \A k \in DOMAIN namespaces :
            \A d \in Defs(k) :
                (\A d2 \in Defs(k) : d2 = d \/ DefBefore(d2, d))
                    => namespaces[k] = pages[d[1]].entries[d[2]].key

\* ------------------------------------------------------------------------
\* C8: a live slot whose type byte is not a known tag is decoded as an entry
\* with size 0 and no value, the cursor advances by one slot and the walk
\* continues.
\* ------------------------------------------------------------------------
C8_UnknownTagTolerated ==
    [][(/\ AtLiveSlot
        /\ (entryNum + 3) * ENTRY_SIZE <= CurWindow.len
        /\ ByteAt(CurWindow, (entryNum + 2) * ENTRY_SIZE + 1) \notin NVSDataType)
       => (/\ pc' = "walk"
           /\ entryNum' = entryNum + 1
           /\ Len(page'.entries) = Len(page.entries) + 1
           /\ page'.entries[Len(page'.entries)].size = 0
           /\ page'.entries[Len(page'.entries)].value = NoneV)]_vars

\* ------------------------------------------------------------------------
\* C9: a slot whose bitmap state is the invalid value 1 is skipped: the
\* cursor advances by one slot, no entry is added to the page and no
\* namespace is bound.
\* ------------------------------------------------------------------------
C9_InvalidStateRejected ==
    [][(AtLiveSlot /\ entryState[entryNum + 1] = 1)
       => (/\ pc' = "walk"
           /\ entryNum' = entryNum + 1
           /\ page'.entries = page.entries
           /\ namespaces' = namespaces)]_vars

\* ------------------------------------------------------------------------
\* C10: a final window shorter than 4096 bytes is not given to the page
\* decoder: it is never walked, never retained, and the scan does not raise
\* on it.
\* ------------------------------------------------------------------------
C10_PartialWindowDiscarded ==
    /\ (pc \in {"walk", "raised"} /\ AtWindow) => CurWindow.len = PAGE_SIZE
    /\ \A i \in 1..Len(pages) : WindowAt(imageData, pages[i].phys).len = PAGE_SIZE
    /\ \A i \in 1..Len(out) : WindowAt(imageData, out[i].phys).len = PAGE_SIZE

\* ------------------------------------------------------------------------
\* C11: the namespace mapping is scoped to one scan: the name a row is
\* written with is "Namespace" for id 0 or the key of a defining entry of
\* the image of this very call, never a binding that an earlier call of the
\* process made from another image.
\* ------------------------------------------------------------------------
NamesInScan(n) ==
    { pages[d[1]].entries[d[2]].key : d \in Defs(IntV(n)) }
        \cup (IF n = 0 THEN {NamespaceStr} ELSE {})

C11_NamespacesScopedToScan ==
    pc \in {"write", "done"} =>
        \A i \in 1..Len(out) : out[i].row.namespace \in NamesInScan(out[i].ns)

\* ------------------------------------------------------------------------
\* C12: a second call on the same image with the same flags leaves the same
\* rows in the CSV file as the first, the namespace name of every row
\* included.
\* ------------------------------------------------------------------------
C12_RescanIdentical ==
    (pc = "done" /\ calls > 1 /\ prev.image = imageData) => out = prev.out

\* a second call on the same image is over and wrote a row of a namespace
\* other than 0
C12_Witness ==
    /\ pc = "done"
    /\ calls > 1
    /\ prev.image = imageData
    /\ \E i \in 1..Len(out) : out[i].ns # 0

\* ------------------------------------------------------------------------
\* C13: when exactly one decoded entry of the image defines namespace id n
\* (namespace 0, scalar value n, key k), every row of an entry of namespace
\* n is written with the name k, whether that entry lies before or after
\* the defining entry in the image.
\* ------------------------------------------------------------------------
C13_SoleBindingNames ==
    pc \in {"write", "done"} =>
        \A i \in 1..Len(out) :
            \A d \in Defs(IntV(out[i].ns)) :
                Defs(IntV(out[i].ns)) = {d}
                    => out[i].row.namespace = pages[d[1]].entries[d[2]].key

\* row r is of an entry that lies before the place (phys, slot) in the image
RowLiesBefore(r, phys, slot) ==
    r.phys < phys \/ (r.phys = phys /\ r.slot < slot)

\* a scan is over in which the only defining entry of an id has rows of
\* that id on both sides of it
C13_Witness ==
    /\ pc = "done"
    /\ \E i \in 1..Len(out) : \E j \in 1..Len(out) :
          \E d \in Defs(IntV(out[i].ns)) :
              /\ out[j].ns = out[i].ns
              /\ Defs(IntV(out[i].ns)) = {d}
              /\ RowLiesBefore(out[i], pages[d[1]].phys, pages[d[1]].slots[d[2]])
              /\ RowLiesBefore([phys |-> pages[d[1]].phys,
                                slot |-> pages[d[1]].slots[d[2]]],
                               out[j].phys, out[j].slot)

\* ------------------------------------------------------------------------
\* C14: when the program has ended, a decoded entry of a retained page has
\* a row in the CSV file if and only if it is Written and the written flag
\* is set, or Erased and the erased flag is set.
\* ------------------------------------------------------------------------
HasRow(p, e) ==
    \E i \in 1..Len(out) :
        out[i].phys = pages[p].phys /\ out[i].slot = pages[p].slots[e]

C14_FlagsSelectOutput ==
    pc \in {"done", "raised"} =>
        \A p \in 1..Len(pages) : \A e \in 1..Len(pages[p].entries) :
            HasRow(p, e) <=>
                \/ printWritten /\ pages[p].entries[e].state = Written
                \/ printErased /\ pages[p].entries[e].state = Erased

\* ------------------------------------------------------------------------
\* CRC32 (reflected polynomial 0xedb88320, initial value and final
\* complement 0xffffffff) on a register of four bytes, the least
\* significant first
\* ------------------------------------------------------------------------
RECURSIVE Xor(_, _)
Xor(a, b) ==
    IF a = 0 THEN b
    ELSE IF b = 0 THEN a
    ELSE ((a + b) % 2) + 2 * Xor(a \div 2, b \div 2)

\* one shift of the register
CrcShift(c) ==
    IF c[1] % 2 = 1
    THEN << Xor((c[1] \div 2) + 128 * (c[2] % 2), 32),
            Xor((c[2] \div 2) + 128 * (c[3] % 2), 131),
            Xor((c[3] \div 2) + 128 * (c[4] % 2), 184),
            Xor(c[4] \div 2, 237) >>
    ELSE << (c[1] \div 2) + 128 * (c[2] % 2),
            (c[2] \div 2) + 128 * (c[3] % 2),
            (c[3] \div 2) + 128 * (c[4] % 2),
            c[4] \div 2 >>

CrcShift8(c) ==
    CrcShift(CrcShift(CrcShift(CrcShift(CrcShift(CrcShift(CrcShift(CrcShift(c))))))))

\* the register after one more byte
CrcByte(c, b) == CrcShift8(<< Xor(c[1], b), c[2], c[3], c[4] >>)

RECURSIVE CrcBytes(_, _)
CrcBytes(c, bytes) ==
    IF bytes = <<>> \/ c = <<>> THEN c
    ELSE CrcBytes(CrcByte(c, Head(bytes)), Tail(bytes))

\* the CRC32 of a byte sequence as four bytes, least significant first
Complement(c) == << 255 - c[1], 255 - c[2], 255 - c[3], 255 - c[4] >>

Crc32(bytes) == Complement(CrcBytes(<<255, 255, 255, 255>>, bytes))

\* the CRC stored in a page header does not match the CRC32 of the bytes it
\* covers: sequence number, version and unused bytes
HeaderCrcMismatch(hdr) == Slice(hdr, 28, 32) # Crc32(Slice(hdr, 4, 28))

\* the CRC stored in an entry does not match the CRC32 of the bytes it
\* covers: the entry without its crc field
EntryCrcMismatch(e) == Slice(e, 4, 8) # Crc32(Slice(e, 0, 4) \o Slice(e, 8, 32))

\* ------------------------------------------------------------------------
\* C15: when the header of an Active or Full page is parsed, or an entry
\* decoded, whose stored CRC does not match the CRC32 of the bytes it
\* covers, a warning is issued (and the program goes on: the step is one
\* that starts the walk of the page or appends the entry).
\* ------------------------------------------------------------------------
C15_CrcMismatchWarned ==
    [][(\/ /\ pc = "scan"
           /\ AtWindow
           /\ pc' = "walk"
           /\ HeaderCrcMismatch(PageSlice(CurWindow, 0, 32))
        \/ /\ Decoded
           /\ EntryCrcMismatch(PageSlice(CurWindow, (entryNum + 2) * ENTRY_SIZE,
                                         (entryNum + 3) * ENTRY_SIZE)))
       => Len(warned') > Len(warned)]_vars

\* ------------------------------------------------------------------------
\* C16: the state the walk of a page uses for slot i, for every i in
\* 0..125, is (bitmap[i div 4] >> (2 * (i mod 4))) & 3, the bitmap being
\* bytes 32..63 of the page: so are all the states when the walk starts,
\* and so is the state of the slot under the cursor at every step.
\* ------------------------------------------------------------------------
BitPair(bitmap, i) == (bitmap[(i \div 4) + 1] \div (4 ^ (i % 4))) % 4

StatesFollow(bitmap) ==
    /\ entryNum = 0 => \A i \in 0..(NUM_ENTRIES - 1) :
                           entryState[i + 1] = BitPair(bitmap, i)
    /\ entryNum < NUM_ENTRIES => entryState[entryNum + 1] = BitPair(bitmap, entryNum)

C16_BitmapLsbPairFirst == pc = "walk" => StatesFollow(PageSlice(CurWindow, 32, 64))

\* the walk of a page whose seventeenth bitmap byte is 0x8d: slots 64..67
\* are in the states 1, 3, 0 and 2
C16_Witness ==
    /\ pc = "walk"
    /\ PageSlice(CurWindow, 32, 64)[17] = 141
    /\ entryNum = 64
    /\ entryState[entryNum + 1] = 1

\* ========================================================================
\* esp32-bin2elf.py: extractEsp32Files
\*
\* imageData is the flash dump as a sequence of bytes, bootloader the
\* address of the bootloader, addr the address of the partition table,
\* offset the cursor of the loop of parsePartitionTable.  pc is "boot"
\* before the bootloader is converted, "table" while the loop runs, then
\* "done" or "raised".
\* ========================================================================

\* a Python tuple
TupleV(elems) == [t |-> "tuple", n |-> 0, s |-> elems]

PARTITION_TABLE_ENTRY_MAGIC_NUMBER == 20650

PARTITION_TABLE_CHECKSUM_MAGIC_NUMBER == 60395

BIN_MAGIC_NUMBER == 233

\* PartitionType(typeNum).name, with PartitionType._missing_
PartitionType(typeNum) ==
    IF typeNum = 0 THEN "app"
    ELSE IF typeNum = 1 THEN "data"
    ELSE IF typeNum = 64 THEN "user"
    ELSE IF typeNum = 255 THEN "unknown"
    ELSE IF 64 <= typeNum /\ typeNum < 255 THEN "user"
    ELSE "unknown"

\* AppSubType(subtypeNum).name, with AppSubType._missing_
AppSubType(subtypeNum) ==
    IF subtypeNum = 0 THEN "factory"
    ELSE IF 16 <= subtypeNum /\ subtypeNum <= 31
         THEN << "ota_0", "ota_1", "ota_2", "ota_3", "ota_4", "ota_5", "ota_6",
                 "ota_7", "ota_8", "ota_9", "ota_10", "ota_11", "ota_12",
                 "ota_13", "ota_14", "ota_15" >>[subtypeNum - 15]
    ELSE "unknown"

\* DataSubType(subtypeNum).name, with DataSubType._missing_
DataSubType(subtypeNum) ==
    IF subtypeNum <= 6
    THEN << "ota", "phy", "nvs", "coredump", "nvs_keys", "efuse",
            "undefined" >>[subtypeNum + 1]
    ELSE IF 129 <= subtypeNum /\ subtypeNum <= 131
         THEN << "fat", "spiffs", "littlefs" >>[subtypeNum - 128]
    ELSE "unknown"

\* the match statement of processPartitionTableEntry: subtype.name
SubTypeName(type, subtypeNum) ==
    IF type = "app" THEN AppSubType(subtypeNum)
    ELSE IF type = "data" THEN DataSubType(subtypeNum)
    ELSE IF type = "user" THEN "user"
    ELSE "unknown"

\* a call of warnings.warn: the text and the number formatted into it
Warning(msg, arg) == [msg |-> msg, arg |-> arg]

Md5MismatchWarning(tableAddr) ==
    Warning("WARNING -- MD5 checksum mismatch in partition table at addr ",
            tableAddr)

\* ------------------------------------------------------------------------
\* hashlib.md5 (RFC 1321) on 32-bit words kept as <<high half, low half>>
\* ------------------------------------------------------------------------
RECURSIVE And(_, _)
And(a, b) ==
    IF a = 0 \/ b = 0 THEN 0
    ELSE ((a % 2) * (b % 2)) + 2 * And(a \div 2, b \div 2)

WAnd(x, y) == << And(x[1], y[1]), And(x[2], y[2]) >>

WOr(x, y) ==
    << x[1] + y[1] - And(x[1], y[1]), x[2] + y[2] - And(x[2], y[2]) >>

WXor(x, y) == << Xor(x[1], y[1]), Xor(x[2], y[2]) >>

WNot(x) == << 65535 - x[1], 65535 - x[2] >>

\* addition modulo 2^32
WAdd(x, y) ==
    << (x[1] + y[1] + ((x[2] + y[2]) \div 65536)) % 65536, (x[2] + y[2]) % 65536 >>

\* rotation to the left by s bits, 0 <= s < 16
RotlSmall(x, s) ==
    << ((x[1] * (2 ^ s)) % 65536) + (x[2] \div (2 ^ (16 - s))),
       ((x[2] * (2 ^ s)) % 65536) + (x[1] \div (2 ^ (16 - s))) >>

\* rotation to the left by s bits, 0 < s < 32
Rotl(x, s) == IF s < 16 THEN RotlSmall(x, s) ELSE RotlSmall(<< x[2], x[1] >>, s - 16)

\* floor(2^32 * abs(sin(i + 1))) for i in 0..63
Md5K ==
    << <<55146, 42104>>, <<59591, 46934>>, <<9248, 28891>>, <<49597,
       52974>>, <<62844, 4015>>, <<18311, 50730>>, <<43056, 17939>>,
       <<64838, 38145>>, <<27008, 39128>>, <<35652, 63407>>, <<65535,
       23473>>, <<35164, 55230>>, <<27536, 4386>>, <<64920, 29075>>,
       <<42617, 17294>>, <<18868, 2081>>, <<63006, 9570>>, <<49216, 45888>>,
       <<9822, 23121>>, <<59830, 51114>>, <<54831, 4189>>, <<580, 5203>>,
       <<55457, 59009>>, <<59347, 64456>>, <<8673, 52710>>, <<49975, 2006>>,
       <<62677, 3463>>, <<17754, 5357>>, <<43491, 59653>>, <<64751, 41976>>,
       <<26479, 729>>, <<36138, 19594>>, <<65530, 14658>>, <<34673, 63105>>,
       <<28061, 24866>>, <<64997, 14348>>, <<42174, 59972>>, <<19422,
       53161>>, <<63163, 19296>>, <<48831, 48240>>, <<10395, 32454>>,
       <<60065, 10234>>, <<54511, 12421>>, <<1160, 7429>>, <<55764, 53305>>,
       <<59099, 39397>>, <<8098, 31992>>, <<50348, 22117>>, <<62505, 8772>>,
       <<17194, 65431>>, <<43924, 9127>>, <<64659, 41017>>, <<25947,
       22979>>, <<36620, 52370>>, <<65519, 62589>>, <<34180, 24017>>,
       <<28584, 32335>>, <<65068, 59104>>, <<41729, 17172>>, <<19976,
       4513>>, <<63315, 32386>>, <<48442, 62005>>, <<10967, 53947>>,
       <<60294, 54161>> >>

\* the shift of round i
Md5S ==
    << 7, 12, 17, 22, 7, 12, 17, 22, 7, 12, 17, 22, 7, 12, 17, 22,
       5, 9, 14, 20, 5, 9, 14, 20, 5, 9, 14, 20, 5, 9, 14, 20,
       4, 11, 16, 23, 4, 11, 16, 23, 4, 11, 16, 23, 4, 11, 16, 23,
       6, 10, 15, 21, 6, 10, 15, 21, 6, 10, 15, 21, 6, 10, 15, 21 >>

\* the mixing function of round i on the state s = <<a, b, c, d>>
Md5F(i, s) ==
    IF i < 16 THEN WOr(WAnd(s[2], s[3]), WAnd(WNot(s[2]), s[4]))
    ELSE IF i < 32 THEN WOr(WAnd(s[4], s[2]), WAnd(WNot(s[4]), s[3]))
    ELSE IF i < 48 THEN WXor(WXor(s[2], s[3]), s[4])
    ELSE WXor(s[3], WOr(s[2], WNot(s[4])))

\* the index of the message word of round i
Md5G(i) ==
    IF i < 16 THEN i
    ELSE IF i < 32 THEN (5 * i + 1) % 16
    ELSE IF i < 48 THEN (3 * i + 5) % 16
    ELSE (7 * i) % 16

\* round i on the state s with the 16 words m of the block
Md5Round(i, s, m) ==
    << s[4],
       WAdd(s[2], Rotl(WAdd(WAdd(WAdd(s[1], Md5F(i, s)), Md5K[i + 1]), m[Md5G(i) + 1]),
                       Md5S[i + 1])),
       s[2],
       s[3] >>

RECURSIVE Md5Rounds(_, _, _)
Md5Rounds(i, s, m) ==
    IF i = 64 \/ s = <<>> THEN s ELSE Md5Rounds(i + 1, Md5Round(i, s, m), m)

\* the 16 little-endian words of a block of 64 bytes
BlockWords(b) ==
    [j \in 1..16 |-> << b[4 * j - 1] + 256 * b[4 * j], b[4 * j - 3] + 256 * b[4 * j - 2] >>]

\* the state after one more block
Md5Block(h, b) ==
    LET s == Md5Rounds(0, h, BlockWords(b))
    IN  << WAdd(h[1], s[1]), WAdd(h[2], s[2]), WAdd(h[3], s[3]), WAdd(h[4], s[4]) >>

RECURSIVE Md5Blocks(_, _)
Md5Blocks(h, msg) ==
    IF msg = <<>> \/ h = <<>> THEN h
    ELSE Md5Blocks(Md5Block(h, SubSeq(msg, 1, 64)), SubSeq(msg, 65, Len(msg)))

\* the message followed by 0x80, zeros up to 56 modulo 64, and its length
\* in bits as 8 little-endian bytes (messages shorter than 2^13 bytes)
Md5Pad(msg) ==
    msg \o <<128>> \o [i \in 1..((119 - Len(msg)) % 64) |-> 0]
        \o << (8 * Len(msg)) % 256, (8 * Len(msg)) \div 256, 0, 0, 0, 0, 0, 0 >>

WordBytes(x) == << x[2] % 256, x[2] \div 256, x[1] % 256, x[1] \div 256 >>

\* hashlib.md5(msg).digest()
Md5(msg) ==
    LET h == Md5Blocks(<< <<26437, 8961>>, <<61389, 43913>>, <<39098, 56574>>,
                         <<4146, 21622>> >>, Md5Pad(msg))
    IN  WordBytes(h[1]) \o WordBytes(h[2]) \o WordBytes(h[3]) \o WordBytes(h[4])

\* ------------------------------------------------------------------------
\* hashlib.sha256 (FIPS 180-4) on 32-bit words kept as <<high half, low half>>
\* ------------------------------------------------------------------------

\* rotation to the right by n bits, 0 < n < 32
Rotr(x, n) == Rotl(x, 32 - n)

\* shift to the right by n bits, 0 < n < 16
Shr(x, n) ==
    << x[1] \div (2 ^ n),
       ((x[1] % (2 ^ n)) * (2 ^ (16 - n))) + (x[2] \div (2 ^ n)) >>

\* the first 32 bits of the fractional parts of the cube roots of the
\* first 64 primes
Sha256K ==
    << <<17034, 12184>>, <<28983, 17553>>, <<46528, 64463>>,
       <<59829, 56229>>, <<14678, 49755>>, <<23025, 4593>>, <<37439, 33444>>,
       <<43804, 24277>>, <<55303, 43672>>, <<4739, 23297>>, <<9265, 34238>>,
       <<21772, 32195>>, <<29374, 23924>>, <<32990, 45566>>, <<39900, 1703>>,
       <<49563, 61812>>, <<58523, 27073>>, <<61374, 18310>>, <<4033, 40390>>,
       <<9228, 41420>>, <<11753, 11375>>, <<19060, 33962>>, <<23728, 43484>>,
       <<30457, 35034>>, <<38974, 20818>>, <<43057, 50797>>,
       <<45059, 10184>>, <<48985, 32711>>, <<50912, 3059>>, <<54695, 37191>>,
       <<1738, 25425>>, <<5161, 10599>>, <<10167, 2693>>, <<11803, 8504>>,
       <<19756, 28156>>, <<21304, 3347>>, <<25866, 29524>>, <<30314, 2747>>,
       <<33218, 51502>>, <<37490, 11397>>, <<41663, 59553>>,
       <<43034, 26187>>, <<49739, 35696>>, <<51052, 20899>>,
       <<53650, 59417>>, <<54937, 1572>>, <<62478, 13701>>, <<4202, 41072>>,
       <<6564, 49430>>, <<7735, 27656>>, <<10056, 30540>>, <<13488, 48309>>,
       <<14620, 3251>>, <<20184, 43594>>, <<23452, 51791>>, <<26670, 28659>>,
       <<29839, 33518>>, <<30885, 25455>>, <<33992, 30740>>, <<36039, 520>>,
       <<37054, 65530>>, <<42064, 27883>>, <<48889, 41975>>, <<50801, 30962>> >>

\* the first 32 bits of the fractional parts of the square roots of the
\* first 8 primes
Sha256H ==
    << <<27145, 58983>>, <<47975, 44677>>, <<15470, 62322>>,
       <<42319, 62778>>, <<20750, 21119>>, <<39685, 26764>>, <<8067, 55723>>,
       <<23520, 52505>> >>

SmallSigma0(x) == WXor(WXor(Rotr(x, 7), Rotr(x, 18)), Shr(x, 3))

SmallSigma1(x) == WXor(WXor(Rotr(x, 17), Rotr(x, 19)), Shr(x, 10))

BigSigma0(x) == WXor(WXor(Rotr(x, 2), Rotr(x, 13)), Rotr(x, 22))

BigSigma1(x) == WXor(WXor(Rotr(x, 6), Rotr(x, 11)), Rotr(x, 25))

Ch(x, y, z) == WXor(WAnd(x, y), WAnd(WNot(x), z))

Maj(x, y, z) == WXor(WXor(WAnd(x, y), WAnd(x, z)), WAnd(y, z))

\* the 16 big-endian words of a block of 64 bytes
BlockWordsBE(b) ==
    [j \in 1..16 |-> << 256 * b[4 * j - 3] + b[4 * j - 2], 256 * b[4 * j - 1] + b[4 * j] >>]

\* the message schedule: 64 words from the 16 words of the block
RECURSIVE ShaSchedule(_)
ShaSchedule(w) ==
    IF Len(w) >= 64 THEN w
    ELSE ShaSchedule(Append(w,
             WAdd(WAdd(SmallSigma1(w[Len(w) - 1]), w[Len(w) - 6]),
                  WAdd(SmallSigma0(w[Len(w) - 14]), w[Len(w) - 15]))))

\* the state <<a, b, c, d, e, f, g, h>> after a round with the sums t1, t2
ShaStep(s, t1, t2) ==
    << WAdd(t1, t2), s[1], s[2], s[3], WAdd(s[4], t1), s[5], s[6], s[7] >>

\* round i (from 1) on the state s with the schedule w
ShaRound(i, s, w) ==
    ShaStep(s,
            WAdd(WAdd(WAdd(s[8], BigSigma1(s[5])), Ch(s[5], s[6], s[7])),
                 WAdd(Sha256K[i], w[i])),
            WAdd(BigSigma0(s[1]), Maj(s[1], s[2], s[3])))

RECURSIVE ShaRounds(_, _, _)
ShaRounds(i, s, w) ==
    IF i > 64 \/ s = <<>> THEN s ELSE ShaRounds(i + 1, ShaRound(i, s, w), w)

\* the hash value after one more block
ShaBlockSum(h, s) == [j \in 1..8 |-> WAdd(h[j], s[j])]

ShaBlock(h, b) ==
    ShaBlockSum(h, ShaRounds(1, h, ShaSchedule(BlockWordsBE(b))))

RECURSIVE ShaBlocks(_, _)
ShaBlocks(h, msg) ==
    IF msg = <<>> \/ h = <<>> THEN h
    ELSE ShaBlocks(ShaBlock(h, SubSeq(msg, 1, 64)), SubSeq(msg, 65, Len(msg)))

\* the message followed by 0x80, zeros up to 56 modulo 64, and its length
\* in bits as 8 big-endian bytes (messages shorter than 2^13 bytes)
ShaPad(msg) ==
    msg \o <<128>> \o [i \in 1..((119 - Len(msg)) % 64) |-> 0]
        \o << 0, 0, 0, 0, 0, 0, (8 * Len(msg)) \div 256, (8 * Len(msg)) % 256 >>

WordBytesBE(x) == << x[1] \div 256, x[1] % 256, x[2] \div 256, x[2] % 256 >>

RECURSIVE WordsBytesBE(_)
WordsBytesBE(ws) ==
    IF ws = <<>> THEN <<>> ELSE WordBytesBE(ws[1]) \o WordsBytesBE(Tail(ws))

\* hashlib.sha256(msg).digest()
Sha256(msg) == WordsBytesBE(ShaBlocks(Sha256H, ShaPad(msg)))

\* ------------------------------------------------------------------------
\* parseAppImage, writeElfFile, image2elf
\* ------------------------------------------------------------------------

\* what a call of parseAppImage does: the exception it raises (or ""), the
\* warnings it issues, and the pair it returns, entry as its four bytes and
\* segments as a list of [address, data], none being TRUE when it is None
AppResult(exc, warns, none, entry, segments) ==
    [err |-> exc, warns |-> warns, none |-> none, entry |-> entry,
     segments |-> segments]

AppRaises(exc) == AppResult(exc, <<>>, TRUE, << 0, 0, 0, 0 >>, <<>>)

\* return 0, None after a warning
AppNone(msg, arg) ==
    AppResult("", << Warning(msg, arg) >>, TRUE, << 0, 0, 0, 0 >>, <<>>)

\* the size field of the segment header at offset off
SegmentSize(data, off) == UnpackUnsigned(Slice(data, off + 4, off + 8))

\* the list after the segment whose header is at offset off: a segment
\* without data is not added
WithSegment(segs, data, off) ==
    IF SegmentSize(data, off) > 0
    THEN Append(segs, [address |-> Slice(data, off, off + 4),
                       data |-> Slice(data, off + 8,
                                      off + 8 + SegmentSize(data, off))])
    ELSE segs

\* the loop over the n segment headers that are left, from offset off
RECURSIVE ParseSegments(_, _, _, _)
ParseSegments(data, n, off, segs) ==
    IF n = 0 THEN [err |-> "", offset |-> off, segments |-> segs]
    ELSE IF Len(Slice(data, off, off + 8)) # 8
    THEN [err |-> "struct.error", offset |-> off, segments |-> segs]
    ELSE ParseSegments(data, n - 1, off + 8 + SegmentSize(data, off),
                       WithSegment(segs, data, off))

\* functools.reduce(lambda x, y: x ^ y, bytes, csum)
RECURSIVE XorBytes(_, _)
XorBytes(csum, bytes) ==
    IF bytes = <<>> THEN csum ELSE XorBytes(Xor(csum, bytes[1]), Tail(bytes))

RECURSIVE XorSegments(_, _)
XorSegments(csum, segs) ==
    IF segs = <<>> THEN csum
    ELSE XorSegments(XorBytes(csum, segs[1].data), Tail(segs))

calculateChecksum(segments) == XorSegments(239, segments)

\* the warnings of the SHA256 test: off is the offset after the checksum
HashWarned(data, off) ==
    IF data[24] # 0 /\ Sha256(Slice(data, 0, off)) # Slice(data, off, off + 32)
    THEN << Warning("Invalid SHA256 hash for app image", 0) >>
    ELSE <<>>

\* the checksum byte at offset off, then the hash
CheckAppImage(data, segs, off) ==
    IF off >= Len(data) THEN AppRaises("IndexError")
    ELSE IF data[off + 1] # calculateChecksum(segs)
    THEN AppNone("Invalid checksum in app image", 0)
    ELSE AppResult("", HashWarned(data, off + 1), FALSE, Slice(data, 4, 8), segs)

\* after the loop over the segments: offset += 15 - (offset % 16)
AfterSegments(data, r) ==
    IF r.err # "" THEN AppRaises(r.err)
    ELSE CheckAppImage(data, r.segments, r.offset + 15 - (r.offset % 16))

parseAppImage(data) ==
    IF Len(Slice(data, 0, 8)) # 8 THEN AppRaises("struct.error")
    ELSE IF data[1] # BIN_MAGIC_NUMBER
    THEN AppNone("Invalid app program file header at offset ", 8)
    ELSE IF data[2] = 0 THEN AppNone("Found empty app partition", 0)
    ELSE IF Len(Slice(data, 8, 24)) # 16 THEN AppRaises("struct.error")
    ELSE AfterSegments(data, ParseSegments(data, data[2], 24, <<>>))

\* unsigned integers of 16 and 32 bits in little-endian order
Pack16(n) == << n % 256, n \div 256 >>

Pack32(n) ==
    << n % 256, (n \div 256) % 256, (n \div 65536) % 256, n \div 16777216 >>

\* struct.pack('<4s5B7x2H5I6H', ...) of writeElfFile for n segments
ElfHeader(entry, n) ==
    << 127, 69, 76, 70, 1, 1, 1, 0, 0, 0, 0, 0, 0, 0, 0, 0 >>
        \o Pack16(2) \o Pack16(94) \o Pack32(1) \o entry \o Pack32(52)
        \o Pack32(0) \o Pack32(768) \o Pack16(52) \o Pack16(32) \o Pack16(n)
        \o Pack16(40) \o Pack16(0) \o Pack16(0)

\* the program header table: the data of the first segment is at off
RECURSIVE ProgramHeaders(_, _)
ProgramHeaders(segs, off) ==
    IF segs = <<>> THEN <<>>
    ELSE Pack32(1) \o Pack32(off) \o segs[1].address \o segs[1].address
            \o Pack32(Len(segs[1].data)) \o Pack32(Len(segs[1].data))
            \o Pack32(7) \o Pack32(0)
            \o ProgramHeaders(Tail(segs), off + Len(segs[1].data))

RECURSIVE SegmentsData(_)
SegmentsData(segs) ==
    IF segs = <<>> THEN <<>> ELSE segs[1].data \o SegmentsData(Tail(segs))

\* the bytes writeElfFile writes into the file it has opened
writeElfFile(entry, segments) ==
    ElfHeader(entry, Len(segments))
        \o ProgramHeaders(segments, 52 + 32 * Len(segments))
        \o SegmentsData(segments)

\* the partition name inside a file name; the name of the bootloader file
\* has none
PartitionName(name) == IF Len(name) = 4 THEN name[3] ELSE <<>>

\* the bytes of the extension of a file name
ExtBytes(ext) ==
    IF ext = ".dat" THEN << 46, 100, 97, 116 >> ELSE << 46, 101, 108, 102 >>

\* the part of a partition name before its first slash
BeforeSlash(n) ==
    SubSeq(n, 1, (CHOOSE i \in DOMAIN n :
                     n[i] = 47 /\ \A j \in 1..(i - 1) : n[j] # 47) - 1)

\* the path of name runs through a file this run has written: the file
\* base.type.subtype.x.ext exists and the partition name starts with
\* x.ext followed by a slash
ThroughFile(fs, name) ==
    \E k \in DOMAIN fs :
        /\ Len(fs[k][1]) = 4
        /\ fs[k][1][1] = name[1]
        /\ fs[k][1][2] = name[2]
        /\ fs[k][1][3] \o ExtBytes(fs[k][1][4]) = BeforeSlash(PartitionName(name))

\* the exception of open(name, mode='wb') after the files fs are written,
\* or "": ValueError (embedded null byte) for a NUL in the name; for a
\* slash NotADirectoryError when the part before the slash names a file
\* written before and FileNotFoundError otherwise, since the directory of
\* the flash dump holds no directory named base.type.subtype.x
OpenErr(fs, name) ==
    IF \E i \in DOMAIN PartitionName(name) : PartitionName(name)[i] = 0
    THEN "ValueError"
    ELSE IF \E i \in DOMAIN PartitionName(name) : PartitionName(name)[i] = 47
    THEN IF ThroughFile(fs, name) THEN "NotADirectoryError"
         ELSE "FileNotFoundError"
    ELSE ""

\* with open(name, mode='wb') as f: f.write(bytes), after the files fs: the
\* exception (or "") and the files
WriteFile(fs, name, bytes) ==
    IF OpenErr(fs, name) # "" THEN [err |-> OpenErr(fs, name), files |-> fs]
    ELSE [err |-> "", files |-> Append(fs, << name, bytes >>)]

\* image2elf: r is what parseAppImage did, name the file; the exception (or
\* "") and the files after it
image2elf(fs, r, name) ==
    IF r.err # "" \/ r.none THEN [err |-> r.err, files |-> fs]
    ELSE WriteFile(fs, name, writeElfFile(r.entry, r.segments))

\* image2dat
image2dat(fs, data, name) == WriteFile(fs, name, data)

\* ------------------------------------------------------------------------
\* processPartitionTableEntry and the tests of parsePartitionTable
\* ------------------------------------------------------------------------

\* struct.unpack('<BBLL16sL', b) with the name stripped of its nulls
UnpackTableEntry(b) ==
    [typeNum |-> b[1], subtypeNum |-> b[2],
     addr |-> UnpackUnsigned(SubSeq(b, 3, 6)),
     size |-> UnpackUnsigned(SubSeq(b, 7, 10)),
     name |-> RStripNul(SubSeq(b, 11, 26)),
     flags |-> UnpackUnsigned(SubSeq(b, 27, 30))]

\* outFileName and the extension image2elf or image2dat adds, as
\* <<type.name, subtype.name, name, extension>> after the base file name
OutFileName(e, ext) ==
    << PartitionType(e.typeNum),
       SubTypeName(PartitionType(e.typeNum), e.subtypeNum), e.name, ext >>

\* imageData[addr:addr+size] of a table entry
PartitionData(image, e) == Slice(image, e.addr, e.addr + e.size)

\* what a call of processPartitionTableEntry does: the exception it raises
\* (or ""), the files and the warnings after it
EntryResult(exc, fs, ws) == [err |-> exc, files |-> fs, warned |-> ws]

\* the result of an entry whose file was written as w says
AfterWrite(w, ws) == EntryResult(w.err, w.files, ws)

\* image2elf of an app partition: r is what parseAppImage did on its data
AppEntry(fs, ws, e, r) ==
    AfterWrite(image2elf(fs, r, OutFileName(e, ".elf")), ws \o r.warns)

\* processPartitionTableEntry after the entry e is unpacked: the name is
\* decoded, then image2elf or image2dat
ProcessEntry(fs, ws, image, e) ==
    IF ~Utf8Valid(e.name) THEN EntryResult("UnicodeDecodeError", fs, ws)
    ELSE IF PartitionType(e.typeNum) = "app"
    THEN AppEntry(fs, ws, e, parseAppImage(PartitionData(image, e)))
    ELSE AfterWrite(image2dat(fs, PartitionData(image, e),
                            OutFileName(e, ".dat")), ws)

\* processPartitionTableEntry at offset off, with the files fs and the
\* warnings ws before it
processPartitionTableEntry(fs, ws, image, off) ==
    IF Len(Slice(image, off + 2, off + 32)) # 30
    THEN EntryResult("struct.error", fs, ws)
    ELSE ProcessEntry(fs, ws, image,
                      UnpackTableEntry(Slice(image, off + 2, off + 32)))

\* struct.unpack('<H', b) raises struct.error unless b has two bytes
UnpackHRaises(b) == Len(b) # 2

\* struct.unpack('<H', b): a tuple of one int
UnpackH(b) == TupleV(<< IntV(UnpackUnsigned(b)) >>)

\* the condition of the while loop at offset off
AtTableEntry(image, off) ==
    UnpackH(Slice(image, off, off + 2)).s[1]
        = IntV(PARTITION_TABLE_ENTRY_MAGIC_NUMBER)

\* the condition of the if statement that looks for the MD5 checksum: the
\* tuple returned by struct.unpack is compared with the int
AtChecksum(image, off) ==
    UnpackH(Slice(image, off, off + 2))
        = IntV(PARTITION_TABLE_CHECKSUM_MAGIC_NUMBER)

\* ------------------------------------------------------------------------
\* Flash dumps: the bytes before the table (the bootloader), the table
\* entries, and what follows the last entry
\* ------------------------------------------------------------------------

MaxPartitions == 2

\* a 32-byte table entry
TableEntry(typeNum, subtypeNum, partAddr, size, name) ==
    << 170, 80, typeNum, subtypeNum >> \o Pack32(partAddr) \o Pack32(size)
        \o name \o Repeat(0, 16 - Len(name)) \o << 0, 0, 0, 0 >>

\* data/nvs "nvs"; app partitions at address 0 of 48, 80, 12, 40 and 4
\* bytes; user (0x41) "u"; a type that is not defined (0x02) "x"; data with
\* a subtype that is not defined and a name that is not UTF-8; data with a
\* NUL inside the name; an app partition of 48 bytes "app.elf/y" and a data
\* partition "nvs.dat/y", whose paths run through the files of "app" and
\* "nvs"
TableEntries ==
    { TableEntry(1, 2, 0, 4, << 110, 118, 115 >>),
      TableEntry(0, 0, 0, 48, << 97, 112, 112 >>),
      TableEntry(0, 19, 0, 80, << 111, 51 >>),
      TableEntry(0, 0, 0, 12, << 99, 117, 116 >>),
      TableEntry(0, 17, 0, 40, << 105, 100, 120 >>),
      TableEntry(0, 16, 0, 4, << 111 >>),
      TableEntry(65, 7, 2, 3, << 117 >>),
      TableEntry(2, 0, 30, 40, << 120 >>),
      TableEntry(1, 153, 0, 4, << 195 >>),
      TableEntry(1, 2, 0, 4, << 97, 0, 98 >>),
      TableEntry(0, 0, 0, 48, << 97, 112, 112, 46, 101, 108, 102, 47, 121 >>),
      TableEntry(1, 2, 0, 4, << 110, 118, 115, 46, 100, 97, 116, 47, 121 >>) }

\* an app image of one segment of 4 bytes at 0x3ffb0000, entry 0x40080000:
\* 8 bytes of header, 16 bytes of extended header ending with hasHash, the
\* segment, 11 bytes of padding and the checksum byte
AppImage(hasHash, checksum) ==
    << 233, 1, 2, 32, 0, 0, 8, 64 >> \o Repeat(0, 15) \o << hasHash >>
        \o << 0, 0, 251, 63, 4, 0, 0, 0, 1, 2, 3, 4 >> \o Repeat(0, 11)
        \o << checksum >>

\* an app image with hasHash set, followed by its SHA256 hash
HashedImage == AppImage(1, 235) \o Sha256(AppImage(1, 235))

\* what lies before the table: nothing, the header of an app image without
\* segments, an app image, an app image followed by its SHA256 hash, an
\* app image with a wrong checksum byte
Bootloaders == {"none", "empty", "app", "hashed", "bad checksum"}

Bootloader(kind) ==
    IF kind = "none" THEN <<>>
    ELSE IF kind = "empty"
    THEN << 233, 0, 2, 32, 0, 0, 8, 64, 0, 0, 0, 0, 0, 0, 0, 0 >>
    ELSE IF kind = "app" THEN AppImage(0, 235)
    ELSE IF kind = "hashed" THEN HashedImage
    ELSE AppImage(0, 20)

\* the addresses of the bootloader
BootloaderAddrs == {0, 8}

RECURSIVE Flatten(_)
Flatten(ss) == IF ss = <<>> THEN <<>> ELSE ss[1] \o Flatten(Tail(ss))

\* what follows the last entry: the MD5 record of the table, an MD5 record
\* with another digest, an erased record, or the end of the dump
Trailers == {"md5", "wrong md5", "erased", "end"}

Trailer(kind, table) ==
    IF kind = "md5" THEN << 235, 235 >> \o Repeat(255, 14) \o Md5(table)
    ELSE IF kind = "wrong md5" THEN << 235, 235 >> \o Repeat(255, 14) \o Repeat(0, 16)
    ELSE IF kind = "erased" THEN Repeat(255, 32)
    ELSE <<>>

\* the table is at the end of the bootloader
FlashImage(boot, table, kind) ==
    Bootloader(boot) \o table \o Trailer(kind, table)

Tables == UNION {SeqsOf(TableEntries, n) : n \in 0..MaxPartitions}

\* the state of extractEsp32Files after the file is read; the variables of
\* the other programs keep their initial values
InitTable ==
    /\ \E b \in Bootloaders, es \in Tables, k \in Trailers :
          /\ addr = Len(Bootloader(b))
          /\ imageData = FlashImage(b, Flatten(es), k)
    /\ bootloader \in BootloaderAddrs
    /\ offset = 0
    /\ files = <<>>
    /\ warned = <<>>
    /\ err = ""
    /\ pc = "boot"
    /\ printWritten = TRUE
    /\ printErased = FALSE
    /\ pageAddr = 0
    /\ page = NoPage
    /\ entryState = <<>>
    /\ entryNum = 0
    /\ skipped = 0
    /\ pages = <<>>
    /\ namespaces = InitialNamespaces
    /\ pi = 1
    /\ ei = 1
    /\ out = <<>>
    /\ calls = 1
    /\ prev = [image |-> <<>>, out |-> <<>>]
    /\ entries = <<>>

\* the variables extractEsp32Files does not touch
nvsVars ==
    << printWritten, printErased, pageAddr, page, entryState, entryNum,
       skipped, pages, namespaces, pi, ei, calls, prev >>

\* imageData[bootloader:]
BootloaderData == Slice(imageData, bootloader, Len(imageData))

\* image2elf of the bootloader, then the call of parsePartitionTable, which
\* sets offset to addr
BootloaderElf ==
    /\ pc = "boot"
    /\ \E r \in {parseAppImage(BootloaderData)} :
          /\ image2elf(files, r, << "bootloader", ".elf" >>).err = ""
          /\ files' = image2elf(files, r, << "bootloader", ".elf" >>).files
          /\ warned' = warned \o r.warns
    /\ offset' = addr
    /\ pc' = "table"
    /\ UNCHANGED << imageData, bootloader, addr, err, out, entries >>
    /\ UNCHANGED nvsVars

\* image2elf raises on the bootloader
BootloaderRaise ==
    /\ pc = "boot"
    /\ \E r \in {parseAppImage(BootloaderData)} :
          /\ image2elf(files, r, << "bootloader", ".elf" >>).err # ""
          /\ err' = image2elf(files, r, << "bootloader", ".elf" >>).err
          /\ warned' = warned \o r.warns
    /\ pc' = "raised"
    /\ UNCHANGED << imageData, bootloader, addr, offset, files, out, entries >>
    /\ UNCHANGED nvsVars

\* the while condition raises: fewer than two bytes are left at offset
TableMagicRaise ==
    /\ pc = "table"
    /\ UnpackHRaises(Slice(imageData, offset, offset + 2))
    /\ pc' = "raised"
    /\ err' = "struct.error"
    /\ UNCHANGED << imageData, bootloader, addr, offset, files, warned, out, entries >>
    /\ UNCHANGED nvsVars

\* one iteration of the while loop: processPartitionTableEntry, offset += 32
PartitionEntry ==
    /\ pc = "table"
    /\ ~UnpackHRaises(Slice(imageData, offset, offset + 2))
    /\ AtTableEntry(imageData, offset)
    /\ \E r \in {processPartitionTableEntry(files, warned, imageData, offset)} :
          /\ r.err = ""
          /\ files' = r.files
          /\ warned' = r.warned
    /\ offset' = offset + 32
    /\ UNCHANGED << imageData, bootloader, addr, pc, err, out, entries >>
    /\ UNCHANGED nvsVars

\* processPartitionTableEntry raises; the warnings issued before the
\* exception stay
PartitionEntryRaise ==
    /\ pc = "table"
    /\ ~UnpackHRaises(Slice(imageData, offset, offset + 2))
    /\ AtTableEntry(imageData, offset)
    /\ \E r \in {processPartitionTableEntry(files, warned, imageData, offset)} :
          /\ r.err # ""
          /\ err' = r.err
          /\ warned' = r.warned
    /\ pc' = "raised"
    /\ UNCHANGED << imageData, bootloader, addr, offset, files, out, entries >>
    /\ UNCHANGED nvsVars

\* the loop ends: the if statement that looks for the MD5 checksum, the
\* comparison of the digests and the warning
TableChecksum ==
    /\ pc = "table"
    /\ ~UnpackHRaises(Slice(imageData, offset, offset + 2))
    /\ ~AtTableEntry(imageData, offset)
    /\ warned' =
          IF /\ AtChecksum(imageData, offset)
             /\ Slice(imageData, offset + 16, offset + 32)
                   # Md5(Slice(imageData, addr, offset))
          THEN Append(warned, Md5MismatchWarning(addr))
          ELSE warned
    /\ pc' = "done"
    /\ UNCHANGED << imageData, bootloader, addr, offset, files, err, out, entries >>
    /\ UNCHANGED nvsVars

NextTable ==
    \/ BootloaderElf
    \/ BootloaderRaise
    \/ TableMagicRaise
    \/ PartitionEntry
    \/ PartitionEntryRaise
    \/ TableChecksum

SpecTable == InitTable /\ [][NextTable]_vars

Range(s) == {s[i] : i \in DOMAIN s}

\* the record at offset starts with the bytes 0xeb 0xeb
ChecksumRecordAt(image, off) ==
    /\ Len(Slice(image, off, off + 32)) = 32
    /\ image[off + 1] = 235
    /\ image[off + 2] = 235

\* C17: when parsePartitionTable has returned, the record after the last
\* partition entry starts with 0xeb 0xeb, and the 16 bytes at
\* offset+16..offset+32 differ from the MD5 digest of the table bytes from
\* addr up to that record, the MD5 checksum mismatch warning has been issued.
C17_Md5MismatchWarned ==
    ( /\ pc = "done"
      /\ ChecksumRecordAt(imageData, offset)
      /\ Slice(imageData, offset + 16, offset + 32)
            # Md5(Slice(imageData, addr, offset)) )
    => Md5MismatchWarning(addr) \in Range(warned)

\* ========================================================================
\* esp32-mi2csv.py: MiNVSEntry and extractMiNVSEntries
\*
\* imageData is the partition as a sequence of bytes, addr the address of
\* the scan, entries the list of MiNVSEntry objects, out the rows of the CSV
\* file after its header.  pc is "scan" until the file is written, then
\* "done" or "raised".
\* ========================================================================

MAGIC_NUMBER == 43605

\* MiNVSEntryState(state).name, or "ValueError"
MiNVSEntryState(state) ==
    IF state = 65534 THEN "Erased"
    ELSE IF state = 65535 THEN "Written"
    ELSE "ValueError"

\* The constructor is given entryData = imageData[addr : ]: byte i of
\* entryData is byte a + i of the image, and a slice of entryData is the
\* slice of the image moved by a.  The fields of
\* struct.unpack('<HHIHHBBBB', entryData[0:16]) follow.

\* entryData[0:16] has 16 bytes
HeaderComplete(image, a) == Len(Slice(image, a, a + 16)) = 16

HdrMagic(image, a) == UnpackUnsigned(Slice(image, a, a + 2))

HdrState(image, a) == UnpackUnsigned(Slice(image, a + 2, a + 4))

\* crc is kept as its four bytes
HdrCrc(image, a) == Slice(image, a + 4, a + 8)

HdrDataSize(image, a) == UnpackUnsigned(Slice(image, a + 8, a + 10))

HdrSeqNum(image, a) == UnpackUnsigned(Slice(image, a + 10, a + 12))

HdrKeyLength(image, a) == image[a + 13]

\* padding1, padding2, padding3
HdrPadding(image, a) == Slice(image, a + 13, a + 16)

\* a variant that assigns the length instead of adding it
SizeAfter_Assign(size, n) == n

\* self.size += n
SizeAfter(size, n) == size + n

\* the bytes of the key: entryData[self.size : self.size + self.keyLength]
KeyBytes(image, a) == Slice(image, a + 16, a + 16 + HdrKeyLength(image, a))

\* the bytes of the value: entryData[self.size : self.size + self.dataSize]
ValueBytes(image, a) ==
    Slice(image, a + SizeAfter(16, HdrKeyLength(image, a)),
          a + SizeAfter(16, HdrKeyLength(image, a)) + HdrDataSize(image, a))

\* the code point of the well-formed UTF-8 sequence at index i of b
CodePointAt(b, i) ==
    IF Utf8SeqLen(b, i) = 1 THEN b[i]
    ELSE IF Utf8SeqLen(b, i) = 2 THEN (b[i] % 32) * 64 + (b[i + 1] % 64)
    ELSE IF Utf8SeqLen(b, i) = 3
    THEN (b[i] % 16) * 4096 + (b[i + 1] % 64) * 64 + (b[i + 2] % 64)
    ELSE (b[i] % 8) * 262144 + (b[i + 1] % 64) * 4096
            + (b[i + 2] % 64) * 64 + (b[i + 3] % 64)

\* the code points for which str.isprintable() is False (the categories
\* Other and Separator of Unicode 14.0.0 but the space), in blocks of
\* 27 ranges of code points
NotPrintable01(c) ==
    \/ (0 <= c /\ c <= 31) \/ (127 <= c /\ c <= 160) \/ c = 173
    \/ (888 <= c /\ c <= 889) \/ (896 <= c /\ c <= 899) \/ c = 907
    \/ c = 909 \/ c = 930 \/ c = 1328 \/ (1367 <= c /\ c <= 1368)
    \/ (1419 <= c /\ c <= 1420) \/ c = 1424 \/ (1480 <= c /\ c <= 1487)
    \/ (1515 <= c /\ c <= 1518) \/ (1525 <= c /\ c <= 1541) \/ c = 1564
    \/ c = 1757 \/ (1806 <= c /\ c <= 1807) \/ (1867 <= c /\ c <= 1868)
    \/ (1970 <= c /\ c <= 1983) \/ (2043 <= c /\ c <= 2044)
    \/ (2094 <= c /\ c <= 2095) \/ c = 2111 \/ (2140 <= c /\ c <= 2141)
    \/ c = 2143 \/ (2155 <= c /\ c <= 2159) \/ (2191 <= c /\ c <= 2199)

NotPrintable02(c) ==
    \/ c = 2274 \/ c = 2436 \/ (2445 <= c /\ c <= 2446)
    \/ (2449 <= c /\ c <= 2450) \/ c = 2473 \/ c = 2481
    \/ (2483 <= c /\ c <= 2485) \/ (2490 <= c /\ c <= 2491)
    \/ (2501 <= c /\ c <= 2502) \/ (2505 <= c /\ c <= 2506)
    \/ (2511 <= c /\ c <= 2518) \/ (2520 <= c /\ c <= 2523) \/ c = 2526
    \/ (2532 <= c /\ c <= 2533) \/ (2559 <= c /\ c <= 2560) \/ c = 2564
    \/ (2571 <= c /\ c <= 2574) \/ (2577 <= c /\ c <= 2578) \/ c = 2601
    \/ c = 2609 \/ c = 2612 \/ c = 2615 \/ (2618 <= c /\ c <= 2619)
    \/ c = 2621 \/ (2627 <= c /\ c <= 2630) \/ (2633 <= c /\ c <= 2634)
    \/ (2638 <= c /\ c <= 2640)

NotPrintable03(c) ==
    \/ (2642 <= c /\ c <= 2648) \/ c = 2653 \/ (2655 <= c /\ c <= 2661)
    \/ (2679 <= c /\ c <= 2688) \/ c = 2692 \/ c = 2702 \/ c = 2706
    \/ c = 2729 \/ c = 2737 \/ c = 2740 \/ (2746 <= c /\ c <= 2747)
    \/ c = 2758 \/ c = 2762 \/ (2766 <= c /\ c <= 2767)
    \/ (2769 <= c /\ c <= 2783) \/ (2788 <= c /\ c <= 2789)
    \/ (2802 <= c /\ c <= 2808) \/ c = 2816 \/ c = 2820
    \/ (2829 <= c /\ c <= 2830) \/ (2833 <= c /\ c <= 2834) \/ c = 2857
    \/ c = 2865 \/ c = 2868 \/ (2874 <= c /\ c <= 2875)
    \/ (2885 <= c /\ c <= 2886) \/ (2889 <= c /\ c <= 2890)

NotPrintable04(c) ==
    \/ (2894 <= c /\ c <= 2900) \/ (2904 <= c /\ c <= 2907) \/ c = 2910
    \/ (2916 <= c /\ c <= 2917) \/ (2936 <= c /\ c <= 2945) \/ c = 2948
    \/ (2955 <= c /\ c <= 2957) \/ c = 2961 \/ (2966 <= c /\ c <= 2968)
    \/ c = 2971 \/ c = 2973 \/ (2976 <= c /\ c <= 2978)
    \/ (2981 <= c /\ c <= 2983) \/ (2987 <= c /\ c <= 2989)
    \/ (3002 <= c /\ c <= 3005) \/ (3011 <= c /\ c <= 3013) \/ c = 3017
    \/ (3022 <= c /\ c <= 3023) \/ (3025 <= c /\ c <= 3030)
    \/ (3032 <= c /\ c <= 3045) \/ (3067 <= c /\ c <= 3071) \/ c = 3085
    \/ c = 3089 \/ c = 3113 \/ (3130 <= c /\ c <= 3131) \/ c = 3141
    \/ c = 3145

NotPrintable05(c) ==
    \/ (3150 <= c /\ c <= 3156) \/ c = 3159 \/ (3163 <= c /\ c <= 3164)
    \/ (3166 <= c /\ c <= 3167) \/ (3172 <= c /\ c <= 3173)
    \/ (3184 <= c /\ c <= 3190) \/ c = 3213 \/ c = 3217 \/ c = 3241
    \/ c = 3252 \/ (3258 <= c /\ c <= 3259) \/ c = 3269 \/ c = 3273
    \/ (3278 <= c /\ c <= 3284) \/ (3287 <= c /\ c <= 3292) \/ c = 3295
    \/ (3300 <= c /\ c <= 3301) \/ c = 3312 \/ (3315 <= c /\ c <= 3327)
    \/ c = 3341 \/ c = 3345 \/ c = 3397 \/ c = 3401
    \/ (3408 <= c /\ c <= 3411) \/ (3428 <= c /\ c <= 3429) \/ c = 3456
    \/ c = 3460

NotPrintable06(c) ==
    \/ (3479 <= c /\ c <= 3481) \/ c = 3506 \/ c = 3516
    \/ (3518 <= c /\ c <= 3519) \/ (3527 <= c /\ c <= 3529)
    \/ (3531 <= c /\ c <= 3534) \/ c = 3541 \/ c = 3543
    \/ (3552 <= c /\ c <= 3557) \/ (3568 <= c /\ c <= 3569)
    \/ (3573 <= c /\ c <= 3584) \/ (3643 <= c /\ c <= 3646)
    \/ (3676 <= c /\ c <= 3712) \/ c = 3715 \/ c = 3717 \/ c = 3723
    \/ c = 3748 \/ c = 3750 \/ (3774 <= c /\ c <= 3775) \/ c = 3781
    \/ c = 3783 \/ (3790 <= c /\ c <= 3791) \/ (3802 <= c /\ c <= 3803)
    \/ (3808 <= c /\ c <= 3839) \/ c = 3912 \/ (3949 <= c /\ c <= 3952)
    \/ c = 3992

NotPrintable07(c) ==
    \/ c = 4029 \/ c = 4045 \/ (4059 <= c /\ c <= 4095) \/ c = 4294
    \/ (4296 <= c /\ c <= 4300) \/ (4302 <= c /\ c <= 4303) \/ c = 4681
    \/ (4686 <= c /\ c <= 4687) \/ c = 4695 \/ c = 4697
    \/ (4702 <= c /\ c <= 4703) \/ c = 4745 \/ (4750 <= c /\ c <= 4751)
    \/ c = 4785 \/ (4790 <= c /\ c <= 4791) \/ c = 4799 \/ c = 4801
    \/ (4806 <= c /\ c <= 4807) \/ c = 4823 \/ c = 4881
    \/ (4886 <= c /\ c <= 4887) \/ (4955 <= c /\ c <= 4956)
    \/ (4989 <= c /\ c <= 4991) \/ (5018 <= c /\ c <= 5023)
    \/ (5110 <= c /\ c <= 5111) \/ (5118 <= c /\ c <= 5119) \/ c = 5760

NotPrintable08(c) ==
    \/ (5789 <= c /\ c <= 5791) \/ (5881 <= c /\ c <= 5887)
    \/ (5910 <= c /\ c <= 5918) \/ (5943 <= c /\ c <= 5951)
    \/ (5972 <= c /\ c <= 5983) \/ c = 5997 \/ c = 6001
    \/ (6004 <= c /\ c <= 6015) \/ (6110 <= c /\ c <= 6111)
    \/ (6122 <= c /\ c <= 6127) \/ (6138 <= c /\ c <= 6143) \/ c = 6158
    \/ (6170 <= c /\ c <= 6175) \/ (6265 <= c /\ c <= 6271)
    \/ (6315 <= c /\ c <= 6319) \/ (6390 <= c /\ c <= 6399) \/ c = 6431
    \/ (6444 <= c /\ c <= 6447) \/ (6460 <= c /\ c <= 6463)
    \/ (6465 <= c /\ c <= 6467) \/ (6510 <= c /\ c <= 6511)
    \/ (6517 <= c /\ c <= 6527) \/ (6572 <= c /\ c <= 6575)
    \/ (6602 <= c /\ c <= 6607) \/ (6619 <= c /\ c <= 6621)
    \/ (6684 <= c /\ c <= 6685) \/ c = 6751

NotPrintable09(c) ==
    \/ (6781 <= c /\ c <= 6782) \/ (6794 <= c /\ c <= 6799)
    \/ (6810 <= c /\ c <= 6815) \/ (6830 <= c /\ c <= 6831)
    \/ (6863 <= c /\ c <= 6911) \/ (6989 <= c /\ c <= 6991) \/ c = 7039
    \/ (7156 <= c /\ c <= 7163) \/ (7224 <= c /\ c <= 7226)
    \/ (7242 <= c /\ c <= 7244) \/ (7305 <= c /\ c <= 7311)
    \/ (7355 <= c /\ c <= 7356) \/ (7368 <= c /\ c <= 7375)
    \/ (7419 <= c /\ c <= 7423) \/ (7958 <= c /\ c <= 7959)
    \/ (7966 <= c /\ c <= 7967) \/ (8006 <= c /\ c <= 8007)
    \/ (8014 <= c /\ c <= 8015) \/ c = 8024 \/ c = 8026 \/ c = 8028
    \/ c = 8030 \/ (8062 <= c /\ c <= 8063) \/ c = 8117 \/ c = 8133
    \/ (8148 <= c /\ c <= 8149) \/ c = 8156

NotPrintable10(c) ==
    \/ (8176 <= c /\ c <= 8177) \/ c = 8181 \/ (8191 <= c /\ c <= 8207)
    \/ (8232 <= c /\ c <= 8239) \/ (8287 <= c /\ c <= 8303)
    \/ (8306 <= c /\ c <= 8307) \/ c = 8335 \/ (8349 <= c /\ c <= 8351)
    \/ (8385 <= c /\ c <= 8399) \/ (8433 <= c /\ c <= 8447)
    \/ (8588 <= c /\ c <= 8591) \/ (9255 <= c /\ c <= 9279)
    \/ (9291 <= c /\ c <= 9311) \/ (11124 <= c /\ c <= 11125)
    \/ c = 11158 \/ (11508 <= c /\ c <= 11512) \/ c = 11558
    \/ (11560 <= c /\ c <= 11564) \/ (11566 <= c /\ c <= 11567)
    \/ (11624 <= c /\ c <= 11630) \/ (11633 <= c /\ c <= 11646)
    \/ (11671 <= c /\ c <= 11679) \/ c = 11687 \/ c = 11695 \/ c = 11703
    \/ c = 11711 \/ c = 11719

NotPrintable11(c) ==
    \/ c = 11727 \/ c = 11735 \/ c = 11743 \/ (11870 <= c /\ c <= 11903)
    \/ c = 11930 \/ (12020 <= c /\ c <= 12031)
    \/ (12246 <= c /\ c <= 12271) \/ (12284 <= c /\ c <= 12288)
    \/ c = 12352 \/ (12439 <= c /\ c <= 12440)
    \/ (12544 <= c /\ c <= 12548) \/ c = 12592 \/ c = 12687
    \/ (12772 <= c /\ c <= 12783) \/ c = 12831
    \/ (42125 <= c /\ c <= 42127) \/ (42183 <= c /\ c <= 42191)
    \/ (42540 <= c /\ c <= 42559) \/ (42744 <= c /\ c <= 42751)
    \/ (42955 <= c /\ c <= 42959) \/ c = 42962 \/ c = 42964
    \/ (42970 <= c /\ c <= 42993) \/ (43053 <= c /\ c <= 43055)
    \/ (43066 <= c /\ c <= 43071) \/ (43128 <= c /\ c <= 43135)
    \/ (43206 <= c /\ c <= 43213)

NotPrintable12(c) ==
    \/ (43226 <= c /\ c <= 43231) \/ (43348 <= c /\ c <= 43358)
    \/ (43389 <= c /\ c <= 43391) \/ c = 43470
    \/ (43482 <= c /\ c <= 43485) \/ c = 43519
    \/ (43575 <= c /\ c <= 43583) \/ (43598 <= c /\ c <= 43599)
    \/ (43610 <= c /\ c <= 43611) \/ (43715 <= c /\ c <= 43738)
    \/ (43767 <= c /\ c <= 43776) \/ (43783 <= c /\ c <= 43784)
    \/ (43791 <= c /\ c <= 43792) \/ (43799 <= c /\ c <= 43807)
    \/ c = 43815 \/ c = 43823 \/ (43884 <= c /\ c <= 43887)
    \/ (44014 <= c /\ c <= 44015) \/ (44026 <= c /\ c <= 44031)
    \/ (55204 <= c /\ c <= 55215) \/ (55239 <= c /\ c <= 55242)
    \/ (55292 <= c /\ c <= 63743) \/ (64110 <= c /\ c <= 64111)
    \/ (64218 <= c /\ c <= 64255) \/ (64263 <= c /\ c <= 64274)
    \/ (64280 <= c /\ c <= 64284) \/ c = 64311

NotPrintable13(c) ==
    \/ c = 64317 \/ c = 64319 \/ c = 64322 \/ c = 64325
    \/ (64451 <= c /\ c <= 64466) \/ (64912 <= c /\ c <= 64913)
    \/ (64968 <= c /\ c <= 64974) \/ (64976 <= c /\ c <= 65007)
    \/ (65050 <= c /\ c <= 65055) \/ c = 65107 \/ c = 65127
    \/ (65132 <= c /\ c <= 65135) \/ c = 65141
    \/ (65277 <= c /\ c <= 65280) \/ (65471 <= c /\ c <= 65473)
    \/ (65480 <= c /\ c <= 65481) \/ (65488 <= c /\ c <= 65489)
    \/ (65496 <= c /\ c <= 65497) \/ (65501 <= c /\ c <= 65503)
    \/ c = 65511 \/ (65519 <= c /\ c <= 65531)
    \/ (65534 <= c /\ c <= 65535) \/ c = 65548 \/ c = 65575 \/ c = 65595
    \/ c = 65598 \/ (65614 <= c /\ c <= 65615)

NotPrintable14(c) ==
    \/ (65630 <= c /\ c <= 65663) \/ (65787 <= c /\ c <= 65791)
    \/ (65795 <= c /\ c <= 65798) \/ (65844 <= c /\ c <= 65846)
    \/ c = 65935 \/ (65949 <= c /\ c <= 65951)
    \/ (65953 <= c /\ c <= 65999) \/ (66046 <= c /\ c <= 66175)
    \/ (66205 <= c /\ c <= 66207) \/ (66257 <= c /\ c <= 66271)
    \/ (66300 <= c /\ c <= 66303) \/ (66340 <= c /\ c <= 66348)
    \/ (66379 <= c /\ c <= 66383) \/ (66427 <= c /\ c <= 66431)
    \/ c = 66462 \/ (66500 <= c /\ c <= 66503)
    \/ (66518 <= c /\ c <= 66559) \/ (66718 <= c /\ c <= 66719)
    \/ (66730 <= c /\ c <= 66735) \/ (66772 <= c /\ c <= 66775)
    \/ (66812 <= c /\ c <= 66815) \/ (66856 <= c /\ c <= 66863)
    \/ (66916 <= c /\ c <= 66926) \/ c = 66939 \/ c = 66955 \/ c = 66963
    \/ c = 66966

NotPrintable15(c) ==
    \/ c = 66978 \/ c = 66994 \/ c = 67002 \/ (67005 <= c /\ c <= 67071)
    \/ (67383 <= c /\ c <= 67391) \/ (67414 <= c /\ c <= 67423)
    \/ (67432 <= c /\ c <= 67455) \/ c = 67462 \/ c = 67505
    \/ (67515 <= c /\ c <= 67583) \/ (67590 <= c /\ c <= 67591)
    \/ c = 67593 \/ c = 67638 \/ (67641 <= c /\ c <= 67643)
    \/ (67645 <= c /\ c <= 67646) \/ c = 67670
    \/ (67743 <= c /\ c <= 67750) \/ (67760 <= c /\ c <= 67807)
    \/ c = 67827 \/ (67830 <= c /\ c <= 67834)
    \/ (67868 <= c /\ c <= 67870) \/ (67898 <= c /\ c <= 67902)
    \/ (67904 <= c /\ c <= 67967) \/ (68024 <= c /\ c <= 68027)
    \/ (68048 <= c /\ c <= 68049) \/ c = 68100
    \/ (68103 <= c /\ c <= 68107)

NotPrintable16(c) ==
    \/ c = 68116 \/ c = 68120 \/ (68150 <= c /\ c <= 68151)
    \/ (68155 <= c /\ c <= 68158) \/ (68169 <= c /\ c <= 68175)
    \/ (68185 <= c /\ c <= 68191) \/ (68256 <= c /\ c <= 68287)
    \/ (68327 <= c /\ c <= 68330) \/ (68343 <= c /\ c <= 68351)
    \/ (68406 <= c /\ c <= 68408) \/ (68438 <= c /\ c <= 68439)
    \/ (68467 <= c /\ c <= 68471) \/ (68498 <= c /\ c <= 68504)
    \/ (68509 <= c /\ c <= 68520) \/ (68528 <= c /\ c <= 68607)
    \/ (68681 <= c /\ c <= 68735) \/ (68787 <= c /\ c <= 68799)
    \/ (68851 <= c /\ c <= 68857) \/ (68904 <= c /\ c <= 68911)
    \/ (68922 <= c /\ c <= 69215) \/ c = 69247 \/ c = 69290
    \/ (69294 <= c /\ c <= 69295) \/ (69298 <= c /\ c <= 69375)
    \/ (69416 <= c /\ c <= 69423) \/ (69466 <= c /\ c <= 69487)
    \/ (69514 <= c /\ c <= 69551)

NotPrintable17(c) ==
    \/ (69580 <= c /\ c <= 69599) \/ (69623 <= c /\ c <= 69631)
    \/ (69710 <= c /\ c <= 69713) \/ (69750 <= c /\ c <= 69758)
    \/ c = 69821 \/ (69827 <= c /\ c <= 69839)
    \/ (69865 <= c /\ c <= 69871) \/ (69882 <= c /\ c <= 69887)
    \/ c = 69941 \/ (69960 <= c /\ c <= 69967)
    \/ (70007 <= c /\ c <= 70015) \/ c = 70112
    \/ (70133 <= c /\ c <= 70143) \/ c = 70162
    \/ (70207 <= c /\ c <= 70271) \/ c = 70279 \/ c = 70281 \/ c = 70286
    \/ c = 70302 \/ (70314 <= c /\ c <= 70319)
    \/ (70379 <= c /\ c <= 70383) \/ (70394 <= c /\ c <= 70399)
    \/ c = 70404 \/ (70413 <= c /\ c <= 70414)
    \/ (70417 <= c /\ c <= 70418) \/ c = 70441 \/ c = 70449

NotPrintable18(c) ==
    \/ c = 70452 \/ c = 70458 \/ (70469 <= c /\ c <= 70470)
    \/ (70473 <= c /\ c <= 70474) \/ (70478 <= c /\ c <= 70479)
    \/ (70481 <= c /\ c <= 70486) \/ (70488 <= c /\ c <= 70492)
    \/ (70500 <= c /\ c <= 70501) \/ (70509 <= c /\ c <= 70511)
    \/ (70517 <= c /\ c <= 70655) \/ c = 70748
    \/ (70754 <= c /\ c <= 70783) \/ (70856 <= c /\ c <= 70863)
    \/ (70874 <= c /\ c <= 71039) \/ (71094 <= c /\ c <= 71095)
    \/ (71134 <= c /\ c <= 71167) \/ (71237 <= c /\ c <= 71247)
    \/ (71258 <= c /\ c <= 71263) \/ (71277 <= c /\ c <= 71295)
    \/ (71354 <= c /\ c <= 71359) \/ (71370 <= c /\ c <= 71423)
    \/ (71451 <= c /\ c <= 71452) \/ (71468 <= c /\ c <= 71471)
    \/ (71495 <= c /\ c <= 71679) \/ (71740 <= c /\ c <= 71839)
    \/ (71923 <= c /\ c <= 71934) \/ (71943 <= c /\ c <= 71944)

NotPrintable19(c) ==
    \/ (71946 <= c /\ c <= 71947) \/ c = 71956 \/ c = 71959 \/ c = 71990
    \/ (71993 <= c /\ c <= 71994) \/ (72007 <= c /\ c <= 72015)
    \/ (72026 <= c /\ c <= 72095) \/ (72104 <= c /\ c <= 72105)
    \/ (72152 <= c /\ c <= 72153) \/ (72165 <= c /\ c <= 72191)
    \/ (72264 <= c /\ c <= 72271) \/ (72355 <= c /\ c <= 72367)
    \/ (72441 <= c /\ c <= 72703) \/ c = 72713 \/ c = 72759
    \/ (72774 <= c /\ c <= 72783) \/ (72813 <= c /\ c <= 72815)
    \/ (72848 <= c /\ c <= 72849) \/ c = 72872
    \/ (72887 <= c /\ c <= 72959) \/ c = 72967 \/ c = 72970
    \/ (73015 <= c /\ c <= 73017) \/ c = 73019 \/ c = 73022
    \/ (73032 <= c /\ c <= 73039) \/ (73050 <= c /\ c <= 73055)

NotPrintable20(c) ==
    \/ c = 73062 \/ c = 73065 \/ c = 73103 \/ c = 73106
    \/ (73113 <= c /\ c <= 73119) \/ (73130 <= c /\ c <= 73439)
    \/ (73465 <= c /\ c <= 73647) \/ (73649 <= c /\ c <= 73663)
    \/ (73714 <= c /\ c <= 73726) \/ (74650 <= c /\ c <= 74751)
    \/ c = 74863 \/ (74869 <= c /\ c <= 74879)
    \/ (75076 <= c /\ c <= 77711) \/ (77811 <= c /\ c <= 77823)
    \/ (78895 <= c /\ c <= 82943) \/ (83527 <= c /\ c <= 92159)
    \/ (92729 <= c /\ c <= 92735) \/ c = 92767
    \/ (92778 <= c /\ c <= 92781) \/ c = 92863
    \/ (92874 <= c /\ c <= 92879) \/ (92910 <= c /\ c <= 92911)
    \/ (92918 <= c /\ c <= 92927) \/ (92998 <= c /\ c <= 93007)
    \/ c = 93018 \/ c = 93026 \/ (93048 <= c /\ c <= 93052)

NotPrintable21(c) ==
    \/ (93072 <= c /\ c <= 93759) \/ (93851 <= c /\ c <= 93951)
    \/ (94027 <= c /\ c <= 94030) \/ (94088 <= c /\ c <= 94094)
    \/ (94112 <= c /\ c <= 94175) \/ (94181 <= c /\ c <= 94191)
    \/ (94194 <= c /\ c <= 94207) \/ (100344 <= c /\ c <= 100351)
    \/ (101590 <= c /\ c <= 101631) \/ (101641 <= c /\ c <= 110575)
    \/ c = 110580 \/ c = 110588 \/ c = 110591
    \/ (110883 <= c /\ c <= 110927) \/ (110931 <= c /\ c <= 110947)
    \/ (110952 <= c /\ c <= 110959) \/ (111356 <= c /\ c <= 113663)
    \/ (113771 <= c /\ c <= 113775) \/ (113789 <= c /\ c <= 113791)
    \/ (113801 <= c /\ c <= 113807) \/ (113818 <= c /\ c <= 113819)
    \/ (113824 <= c /\ c <= 118527) \/ (118574 <= c /\ c <= 118575)
    \/ (118599 <= c /\ c <= 118607) \/ (118724 <= c /\ c <= 118783)
    \/ (119030 <= c /\ c <= 119039) \/ (119079 <= c /\ c <= 119080)

NotPrintable22(c) ==
    \/ (119155 <= c /\ c <= 119162) \/ (119275 <= c /\ c <= 119295)
    \/ (119366 <= c /\ c <= 119519) \/ (119540 <= c /\ c <= 119551)
    \/ (119639 <= c /\ c <= 119647) \/ (119673 <= c /\ c <= 119807)
    \/ c = 119893 \/ c = 119965 \/ (119968 <= c /\ c <= 119969)
    \/ (119971 <= c /\ c <= 119972) \/ (119975 <= c /\ c <= 119976)
    \/ c = 119981 \/ c = 119994 \/ c = 119996 \/ c = 120004 \/ c = 120070
    \/ (120075 <= c /\ c <= 120076) \/ c = 120085 \/ c = 120093
    \/ c = 120122 \/ c = 120127 \/ c = 120133
    \/ (120135 <= c /\ c <= 120137) \/ c = 120145
    \/ (120486 <= c /\ c <= 120487) \/ (120780 <= c /\ c <= 120781)
    \/ (121484 <= c /\ c <= 121498)

NotPrintable23(c) ==
    \/ c = 121504 \/ (121520 <= c /\ c <= 122623)
    \/ (122655 <= c /\ c <= 122879) \/ c = 122887
    \/ (122905 <= c /\ c <= 122906) \/ c = 122914 \/ c = 122917
    \/ (122923 <= c /\ c <= 123135) \/ (123181 <= c /\ c <= 123183)
    \/ (123198 <= c /\ c <= 123199) \/ (123210 <= c /\ c <= 123213)
    \/ (123216 <= c /\ c <= 123535) \/ (123567 <= c /\ c <= 123583)
    \/ (123642 <= c /\ c <= 123646) \/ (123648 <= c /\ c <= 124895)
    \/ c = 124903 \/ c = 124908 \/ c = 124911 \/ c = 124927
    \/ (125125 <= c /\ c <= 125126) \/ (125143 <= c /\ c <= 125183)
    \/ (125260 <= c /\ c <= 125263) \/ (125274 <= c /\ c <= 125277)
    \/ (125280 <= c /\ c <= 126064) \/ (126133 <= c /\ c <= 126208)
    \/ (126270 <= c /\ c <= 126463) \/ c = 126468

NotPrintable24(c) ==
    \/ c = 126496 \/ c = 126499 \/ (126501 <= c /\ c <= 126502)
    \/ c = 126504 \/ c = 126515 \/ c = 126520 \/ c = 126522
    \/ (126524 <= c /\ c <= 126529) \/ (126531 <= c /\ c <= 126534)
    \/ c = 126536 \/ c = 126538 \/ c = 126540 \/ c = 126544 \/ c = 126547
    \/ (126549 <= c /\ c <= 126550) \/ c = 126552 \/ c = 126554
    \/ c = 126556 \/ c = 126558 \/ c = 126560 \/ c = 126563
    \/ (126565 <= c /\ c <= 126566) \/ c = 126571 \/ c = 126579
    \/ c = 126584 \/ c = 126589 \/ c = 126591

NotPrintable25(c) ==
    \/ c = 126602 \/ (126620 <= c /\ c <= 126624) \/ c = 126628
    \/ c = 126634 \/ (126652 <= c /\ c <= 126703)
    \/ (126706 <= c /\ c <= 126975) \/ (127020 <= c /\ c <= 127023)
    \/ (127124 <= c /\ c <= 127135) \/ (127151 <= c /\ c <= 127152)
    \/ c = 127168 \/ c = 127184 \/ (127222 <= c /\ c <= 127231)
    \/ (127406 <= c /\ c <= 127461) \/ (127491 <= c /\ c <= 127503)
    \/ (127548 <= c /\ c <= 127551) \/ (127561 <= c /\ c <= 127567)
    \/ (127570 <= c /\ c <= 127583) \/ (127590 <= c /\ c <= 127743)
    \/ (128728 <= c /\ c <= 128732) \/ (128749 <= c /\ c <= 128751)
    \/ (128765 <= c /\ c <= 128767) \/ (128884 <= c /\ c <= 128895)
    \/ (128985 <= c /\ c <= 128991) \/ (129004 <= c /\ c <= 129007)
    \/ (129009 <= c /\ c <= 129023) \/ (129036 <= c /\ c <= 129039)
    \/ (129096 <= c /\ c <= 129103)

NotPrintable26(c) ==
    \/ (129114 <= c /\ c <= 129119) \/ (129160 <= c /\ c <= 129167)
    \/ (129198 <= c /\ c <= 129199) \/ (129202 <= c /\ c <= 129279)
    \/ (129620 <= c /\ c <= 129631) \/ (129646 <= c /\ c <= 129647)
    \/ (129653 <= c /\ c <= 129655) \/ (129661 <= c /\ c <= 129663)
    \/ (129671 <= c /\ c <= 129679) \/ (129709 <= c /\ c <= 129711)
    \/ (129723 <= c /\ c <= 129727) \/ (129734 <= c /\ c <= 129743)
    \/ (129754 <= c /\ c <= 129759) \/ (129768 <= c /\ c <= 129775)
    \/ (129783 <= c /\ c <= 129791) \/ c = 129939
    \/ (129995 <= c /\ c <= 130031) \/ (130042 <= c /\ c <= 131071)
    \/ (173792 <= c /\ c <= 173823) \/ (177977 <= c /\ c <= 177983)
    \/ (178206 <= c /\ c <= 178207) \/ (183970 <= c /\ c <= 183983)
    \/ (191457 <= c /\ c <= 194559) \/ (195102 <= c /\ c <= 196607)
    \/ (201547 <= c /\ c <= 917759) \/ (918000 <= c /\ c <= 1114111)

\* not chr(c).isprintable(): the block that holds c decides
NotPrintable(c) ==
    IF c <= 2199 THEN NotPrintable01(c)
    ELSE IF c <= 2640 THEN NotPrintable02(c)
    ELSE IF c <= 2890 THEN NotPrintable03(c)
    ELSE IF c <= 3145 THEN NotPrintable04(c)
    ELSE IF c <= 3460 THEN NotPrintable05(c)
    ELSE IF c <= 3992 THEN NotPrintable06(c)
    ELSE IF c <= 5760 THEN NotPrintable07(c)
    ELSE IF c <= 6751 THEN NotPrintable08(c)
    ELSE IF c <= 8156 THEN NotPrintable09(c)
    ELSE IF c <= 11719 THEN NotPrintable10(c)
    ELSE IF c <= 43213 THEN NotPrintable11(c)
    ELSE IF c <= 64311 THEN NotPrintable12(c)
    ELSE IF c <= 65615 THEN NotPrintable13(c)
    ELSE IF c <= 66966 THEN NotPrintable14(c)
    ELSE IF c <= 68107 THEN NotPrintable15(c)
    ELSE IF c <= 69551 THEN NotPrintable16(c)
    ELSE IF c <= 70449 THEN NotPrintable17(c)
    ELSE IF c <= 71944 THEN NotPrintable18(c)
    ELSE IF c <= 73055 THEN NotPrintable19(c)
    ELSE IF c <= 93052 THEN NotPrintable20(c)
    ELSE IF c <= 119080 THEN NotPrintable21(c)
    ELSE IF c <= 121498 THEN NotPrintable22(c)
    ELSE IF c <= 126468 THEN NotPrintable23(c)
    ELSE IF c <= 126591 THEN NotPrintable24(c)
    ELSE IF c <= 129103 THEN NotPrintable25(c)
    ELSE NotPrintable26(c)

\* chr(c).isprintable()
CharPrintable(c) == ~NotPrintable(c)

RECURSIVE PrintableFrom(_, _)
PrintableFrom(b, i) ==
    \/ i > Len(b)
    \/ \E n \in {Utf8SeqLen(b, i)}, c \in {CodePointAt(b, i)} :
          CharPrintable(c) /\ PrintableFrom(b, i + n)

\* str.isprintable() of the value decoded from the well-formed UTF-8 b
IsPrintable(b) == PrintableFrom(b, 1)

\* the str "b'" + hex + "'"
HexValue(b) == << 98, 39 >> \o Hex(b) \o << 39 >>

\* the exception MiNVSEntry.__init__ raises after the header, or ""
MiBodyErr(image, a) ==
    IF HdrMagic(image, a) # MAGIC_NUMBER THEN ""
    ELSE IF MiNVSEntryState(HdrState(image, a)) = "ValueError" THEN "ValueError"
    ELSE IF Len(KeyBytes(image, a)) # HdrKeyLength(image, a) THEN "struct.error"
    ELSE IF ~Utf8Valid(KeyBytes(image, a)) THEN "UnicodeDecodeError"
    ELSE IF Len(ValueBytes(image, a)) # HdrDataSize(image, a) THEN "struct.error"
    ELSE IF ~Utf8Valid(ValueBytes(image, a)) THEN "UnicodeDecodeError"
    ELSE ""

\* the exception MiNVSEntry(imageData[a : ]) raises, or ""
MiNVSEntryErr(image, a) ==
    IF ~HeaderComplete(image, a) THEN "struct.error" ELSE MiBodyErr(image, a)

\* the warnings after MiNVSEntry(imageData[a : ]), whether it raises or
\* not: the padding bytes are checked first when the magic number matches
MiWarnedAfter(ws, image, a) ==
    IF /\ HeaderComplete(image, a)
       /\ HdrMagic(image, a) = MAGIC_NUMBER
       /\ HdrPadding(image, a) # << 255, 255, 255 >>
    THEN Append(ws, Warning("Unused padding bytes of header", HdrPadding(image, a)))
    ELSE ws

\* MiNVSEntry(imageData[a : ]), when it does not raise: key, value, state
\* and size keep their initial values unless the magic number matches
MiNVSEntry(image, a) ==
    IF HdrMagic(image, a) # MAGIC_NUMBER
    THEN [seqNum |-> HdrSeqNum(image, a), size |-> 16, crc |-> HdrCrc(image, a),
          dataSize |-> HdrDataSize(image, a),
          keyLength |-> HdrKeyLength(image, a),
          key |-> <<>>, value |-> <<>>, state |-> "Erased"]
    ELSE [seqNum |-> HdrSeqNum(image, a),
          size |-> SizeAfter(SizeAfter(16, HdrKeyLength(image, a)),
                             HdrDataSize(image, a)),
          crc |-> HdrCrc(image, a),
          dataSize |-> HdrDataSize(image, a),
          keyLength |-> HdrKeyLength(image, a),
          key |-> KeyBytes(image, a),
          value |-> IF IsPrintable(ValueBytes(image, a))
                    THEN ValueBytes(image, a)
                    ELSE HexValue(ValueBytes(image, a)),
          state |-> MiNVSEntryState(HdrState(image, a))]

\* MiNVSEntry.__str__ as <<seqNum, state.name, dataSize, key, value>>
MiNVSEntry_str(e) == << e.seqNum, e.state, e.dataSize, e.key, e.value >>

\* the test that selects the entries written to the CSV file
MiSelected(e, w, r) ==
    (w /\ e.state = "Written") \/ (r /\ e.state = "Erased")

\* the rows of the output loop over the entries es
RECURSIVE MiRows(_, _, _)
MiRows(es, w, r) ==
    IF es = <<>> THEN <<>>
    ELSE (IF MiSelected(es[1], w, r) THEN << MiNVSEntry_str(es[1]) >> ELSE <<>>)
             \o MiRows(Tail(es), w, r)

\* ------------------------------------------------------------------------
\* Partitions: sequences of records
\* ------------------------------------------------------------------------

MaxRecords == 3

\* a 16-byte header
MiHeader(magic, state, dataSize, seqNum, keyLength, padding) ==
    magic \o state \o << 120, 86, 52, 18 >> \o << dataSize, 0 >> \o seqNum
        \o << keyLength >> \o padding

\* a Written entry k = v; an Erased entry e with a value that is not
\* printable and a padding byte that is not 0xff; a header without the
\* magic number, sequence number 5; an erased header (all 0xff); an entry
\* with the magic number and the sequence number 0xffff; an entry whose
\* state is not one of the enum; an entry whose key
\* of 3 bytes is cut after 1 byte; an
\* entry with an empty value; the first 5 bytes of a header; a Written
\* entry p whose value is U+00E9, which is printable
MiRecords ==
    { MiHeader(<< 85, 170 >>, << 255, 255 >>, 1, << 1, 0 >>, 1, << 255, 255, 255 >>)
          \o << 107, 118 >>,
      MiHeader(<< 85, 170 >>, << 254, 255 >>, 1, << 2, 0 >>, 1, << 0, 255, 255 >>)
          \o << 101, 7 >>,
      MiHeader(<< 0, 0 >>, << 52, 18 >>, 3, << 5, 0 >>, 2, << 255, 255, 255 >>),
      Repeat(255, 16),
      MiHeader(<< 85, 170 >>, << 255, 255 >>, 1, << 255, 255 >>, 1, << 255, 255, 255 >>)
          \o << 122, 119 >>,
      MiHeader(<< 85, 170 >>, << 0, 0 >>, 1, << 3, 0 >>, 1, << 255, 255, 255 >>)
          \o << 115, 116 >>,
      MiHeader(<< 85, 170 >>, << 255, 255 >>, 1, << 4, 0 >>, 3, << 255, 255, 255 >>)
          \o << 108 >>,
      MiHeader(<< 85, 170 >>, << 255, 255 >>, 0, << 6, 0 >>, 1, << 255, 255, 255 >>)
          \o << 110 >>,
      << 85, 170, 255, 255, 0 >>,
      MiHeader(<< 85, 170 >>, << 255, 255 >>, 2, << 7, 0 >>, 1, << 255, 255, 255 >>)
          \o << 112, 195, 169 >> }

MiImages == {Flatten(rs) : rs \in UNION {SeqsOf(MiRecords, n) : n \in 0..MaxRecords}}

\* the state after the file is read; the variables of the other programs
\* keep their initial values
InitMi ==
    /\ imageData \in MiImages
    /\ printWritten \in BOOLEAN
    /\ printErased \in BOOLEAN
    /\ entries = <<>>
    /\ addr = 0
    /\ out = <<>>
    /\ warned = <<>>
    /\ err = ""
    /\ pc = "scan"
    /\ pageAddr = 0
    /\ page = NoPage
    /\ entryState = <<>>
    /\ entryNum = 0
    /\ skipped = 0
    /\ pages = <<>>
    /\ namespaces = InitialNamespaces
    /\ pi = 1
    /\ ei = 1
    /\ calls = 1
    /\ prev = [image |-> <<>>, out |-> <<>>]
    /\ offset = 0
    /\ files = <<>>
    /\ bootloader = 0

\* the variables extractMiNVSEntries does not touch
otherVars ==
    << pageAddr, page, entryState, entryNum, skipped, pages, namespaces, pi,
       ei, calls, prev, offset, files, bootloader >>

\* an iteration of the while loop in which MiNVSEntry raises
ScanRaise ==
    /\ pc = "scan"
    /\ addr < Len(imageData)
    /\ MiNVSEntryErr(imageData, addr) # ""
    /\ warned' = MiWarnedAfter(warned, imageData, addr)
    /\ err' = MiNVSEntryErr(imageData, addr)
    /\ pc' = "raised"
    /\ UNCHANGED << imageData, printWritten, printErased, entries, addr, out >>
    /\ UNCHANGED otherVars

\* an iteration of the while loop that appends the entry
ScanEntry ==
    /\ pc = "scan"
    /\ addr < Len(imageData)
    /\ MiNVSEntryErr(imageData, addr) = ""
    /\ MiNVSEntry(imageData, addr).seqNum # 65535
    /\ warned' = MiWarnedAfter(warned, imageData, addr)
    /\ entries' = Append(entries, MiNVSEntry(imageData, addr))
    /\ addr' = addr + MiNVSEntry(imageData, addr).size
    /\ UNCHANGED << imageData, printWritten, printErased, out, err, pc >>
    /\ UNCHANGED otherVars

\* an iteration of the while loop that ends the scan
ScanStop ==
    /\ pc = "scan"
    /\ addr < Len(imageData)
    /\ MiNVSEntryErr(imageData, addr) = ""
    /\ MiNVSEntry(imageData, addr).seqNum = 65535
    /\ warned' = MiWarnedAfter(warned, imageData, addr)
    /\ addr' = Len(imageData)
    /\ UNCHANGED << imageData, printWritten, printErased, entries, out, err, pc >>
    /\ UNCHANGED otherVars

\* the loop is over: the CSV file is opened for writing and the selected
\* entries are written
WriteCsv ==
    /\ pc = "scan"
    /\ ~(addr < Len(imageData))
    /\ out' = MiRows(entries, printWritten, printErased)
    /\ pc' = "done"
    /\ UNCHANGED << imageData, printWritten, printErased, entries, addr, warned, err >>
    /\ UNCHANGED otherVars

NextMi ==
    \/ ScanRaise
    \/ ScanEntry
    \/ ScanStop
    \/ WriteCsv

\* the program runs on until it returns or raises
SpecMi == InitMi /\ [][NextMi]_vars /\ WF_vars(NextMi)

\* the header at the scan address is complete
HeaderAtAddr == Len(Slice(imageData, addr, addr + 16)) = 16

\* the magic number of the header at the scan address
MagicAtAddr == imageData[addr + 1] + 256 * imageData[addr + 2]

\* C18: in the scan of extractMiNVSEntries, an iteration that reads a
\* 16-byte header whose magic number is not 0xAA55 appends nothing to the
\* entry list and ends the scan (addr becomes len(imageData)).
C18_BadMagicStopsScan ==
    [][ ( /\ pc = "scan"
          /\ addr < Len(imageData)
          /\ HeaderAtAddr
          /\ MagicAtAddr # MAGIC_NUMBER )
        => (entries' = entries /\ addr' = Len(imageData)) ]_vars

\* the size the claim gives for the header at the scan address
ClaimedSize ==
    IF MagicAtAddr = MAGIC_NUMBER
    THEN 16 + imageData[addr + 13]
            + imageData[addr + 9] + 256 * imageData[addr + 10]
    ELSE 16

\* an iteration of the scan loop that completes
ScanIteration == pc = "scan" /\ addr < Len(imageData) /\ pc' = "scan"

\* C19: every iteration of the scan loop of extractMiNVSEntries either sets
\* addr to len(imageData) or appends an entry and adds its size to addr,
\* that size being at least 16 (16 + keyLength + dataSize when the magic
\* number matches, 16 otherwise); and the loop terminates.
C19_ScanTerminates ==
    /\ [][ ScanIteration =>
             \/ addr' = Len(imageData) /\ entries' = entries
             \/ /\ Len(entries') = Len(entries) + 1
                /\ addr' = addr + entries'[Len(entries')].size
                /\ entries'[Len(entries')].size >= 16
                /\ entries'[Len(entries')].size = ClaimedSize ]_vars
    /\ <>(pc # "scan" \/ ~(addr < Len(imageData)))

\* the scan is over after an entry with a key and a value (18 bytes) and a
\* header without the magic number (16 bytes) were appended
C19_Witness ==
    /\ pc = "done"
    /\ addr = Len(imageData)
    /\ \E i \in DOMAIN entries : entries[i].size = 18
    /\ \E i \in DOMAIN entries : entries[i].size = 16 /\ entries[i].keyLength = 2

====
